---- MODULE Spec2Model ----
(***************************************************************************)
(* Spendify backend: the transaction ledger, the per-month Budget          *)
(* aggregate and the handlers that keep spentSoFar in step with the        *)
(* ledger (transactionController, budgetController).                       *)
(*                                                                         *)
(* Time is a count of ticks since the epoch (UTC).  A calendar month has   *)
(* TicksPerMonth ticks.  The server's local clock is UTC + tz ticks; the   *)
(* handlers bucket dates with the local getters getFullYear()/getMonth(),  *)
(* while new Date("YYYY-MM-01") in setBudget is parsed as UTC midnight.    *)
(* strictQuery is the Mongoose query setting of the build: TRUE strips     *)
(* filter paths that are not in the schema (the Mongoose 6 default), FALSE *)
(* sends them to the store as written (the default before and after 6).    *)
(* Amounts are integers (the code uses JS doubles; rounding of fractional  *)
(* amounts is not modelled).                                               *)
(***************************************************************************)
EXTENDS Integers, Sequences, FiniteSets, TLC

(* ---------- bounds ---------- *)
MaxTx == 2
MaxAmount == 2
MaxBudget == 1
MaxTime == 2
TicksPerMonth == 2

Users == {"u1", "u2"}
TzOffsets == {-1, 0, 1}
TxIds == 1..MaxTx
Times == 0..MaxTime
Months == -1..((MaxTime + 1) \div TicksPerMonth)
Categories == {"Food"}

VARIABLES txns, budgets, nextId, now, tz, last, prev,
          bills, alerts, prefs, strictQuery, procs

vars == <<txns, budgets, nextId, now, tz, last, prev,
          bills, alerts, prefs, strictQuery, procs>>

(* what the ledger and budget handlers never touch *)
others == <<bills, alerts, prefs, strictQuery, procs>>

(* ---------- documents ---------- *)
NoTx ==
  [user |-> "none", type |-> "none", category |-> "none", amount |-> 0, date |-> 0,
   mood |-> "none"]
NoBudget == [monthlyBudget |-> 0, spentSoFar |-> 0]

Exists(b) == b # NoBudget

(* a deleted bill leaves NoBill at its place in bills: ids are never reused *)
NoBill == [user |-> "none", status |-> "none", dueDate |-> 0]

(* userSchema.settings.aiPreferences: the toggles and their defaults *)
aiPreferences ==
  [enableAI |-> TRUE, forecast |-> TRUE, personality |-> TRUE,
   suggestions |-> TRUE, challenges |-> TRUE]

(* faulty variant: the enum on type is missing from the schema *)
transactionSchemaNoEnum(type, amount) == amount > 0

(* transactionSchema validators run by Transaction.create / transaction.save *)
transactionSchema(type, amount) ==
  /\ type \in {"income", "expense"}
  /\ amount > 0

(* ---------- request bodies: a field is <<>> when absent, <<v>> when given ---------- *)
Opt(S) == {<<>>} \cup {<<v>> : v \in S}
Given(f) == f # <<>>

(* const {..., mood} = req.body: the mood of the body when it carries one ("none" *)
(* stands for undefined), else the one the document has                           *)
moodOf(body, stored) ==
  IF "mood" \in DOMAIN body /\ Given(body.mood) THEN body.mood[1] ELSE stored
Truthy(f) == Given(f) /\ f[1] # 0

AmountInputs == Opt(-1..MaxAmount)
TypeInputs == Opt({"income", "expense", "other"})
CategoryInputs == Opt(Categories)
DateInputs == Opt(Times)
BudgetInputs == Opt(-1..MaxBudget)

Bodies == [amount : AmountInputs, type : TypeInputs, category : CategoryInputs, date : DateInputs]

Defects(body) ==
  (IF Given(body.amount) /\ body.amount[1] > 0 THEN 0 ELSE 1)
  + (IF body.type \in {<<"income">>, <<"expense">>} THEN 0 ELSE 1)
  + (IF Given(body.category) THEN 0 ELSE 1)
  + (IF Given(body.date) THEN 0 ELSE 1)

(* POST bodies: complete ones, and ones with a single absent or invalid field *)
AddBodies == {body \in Bodies : Defects(body) <= 1}

(* PUT bodies: any edit of amount / type / date, or an edit of the category alone *)
UpdateBodies ==
  {body \in Bodies : Given(body.category) =>
                       (body.amount = <<>> /\ body.type = <<>> /\ body.date = <<>>)}

(* bodies whose date, when given, is a date-only string: midnight UTC of the 1st *)
DateOnly == {t \in Times : t % TicksPerMonth = 0}
AddBodiesDateOnly == {body \in AddBodies : body.date \in Opt(DateOnly)}
UpdateBodiesDateOnly == {body \in UpdateBodies : body.date \in Opt(DateOnly)}

(* bodies that pass every check of the handlers and of the schema *)
AddBodiesComplete == {body \in AddBodiesDateOnly : Defects(body) = 0}
UpdateBodiesWellFormed ==
  {body \in UpdateBodiesDateOnly :
     /\ body.amount \in Opt(1..MaxAmount)
     /\ body.type \in Opt({"income", "expense"})}

(* ---------- dates ---------- *)
(* `${d.getFullYear()}-${String(d.getMonth() + 1).padStart(2, "0")}` of a stored instant: *)
(* the month of the instant on the server's local calendar.                               *)
MonthOf(t) == (t + tz) \div TicksPerMonth

getCurrentMonth == MonthOf(now)

(* new Date(month + "-01"): a date-only ISO string is UTC midnight *)
MonthStartUTC(m) == m * TicksPerMonth

(* new Date(y, mon + 1, 0, 23, 59, 59, 999): last instant of local month m, as a UTC instant *)
MonthEndLocal(m) == (m + 1) * TicksPerMonth - 1 - tz

(* ---------- sums ---------- *)
RECURSIVE SumAmounts(_, _)
SumAmounts(T, S) ==
  IF S = {} THEN 0
  ELSE LET i == CHOOSE x \in S : TRUE
       IN T[i].amount + SumAmounts(T, S \ {i})

(* Transaction.find({user, type: "expense", date: {$gte, $lte}}) then reduce *)
ScanExpenses(u, startDate, endDate) ==
  SumAmounts(txns, {i \in TxIds : /\ txns[i].user = u
                            /\ txns[i].type = "expense"
                            /\ txns[i].date >= startDate
                            /\ txns[i].date <= endDate})

(* ---------- bookkeeping of the last request and its response ---------- *)
(* last: the last request (op, user, id), its outcome (status) and a request value *)
(* (setBudget: the requested limit; add: the number of absent or invalid required   *)
(* fields).  prev: the store as it was when that request arrived.                   *)
Response(op, u, id, status, arg) ==
  [op |-> op, user |-> u, id |-> id, status |-> status, arg |-> arg]

Store == [txns |-> txns, budgets |-> budgets, bills |-> bills, alerts |-> alerts]

Init ==
  /\ txns = [i \in TxIds |-> NoTx]
  /\ budgets = [k \in Users \X Months |-> NoBudget]
  /\ nextId = 1
  /\ now = 0
  /\ tz \in TzOffsets
  /\ last = Response("init", "none", 0, "ok", 0)
  /\ bills = <<>>
  /\ alerts = <<>>
  /\ prefs = [u \in Users |-> aiPreferences]
  /\ strictQuery \in BOOLEAN
  /\ procs = <<>>
  /\ prev = Store

(* ---------- the consistency engine's steps on the aggregate ---------- *)
(* Budget.findOne({user, month}): aggregates exist only for months in Months, the *)
(* months that were current when setBudget ran                                    *)
BudgetOf(b, u, m) == IF <<u, m>> \in DOMAIN b THEN b[<<u, m>>] ELSE NoBudget

(* faulty variant: every stored transaction counts towards the aggregate *)
IsExpenseAnyType(t) == t.type \in {"income", "expense"}

IsExpense(t) == t.type = "expense"

(* faulty variant: the ownership test is missing *)
OwnsAnything(t, u) == TRUE

(* transaction.user.toString() !== req.user.id *)
Owns(t, u) == t.user = u

(* faulty variant: the floor at zero is missing *)
SubtractSpentNoFloor(b, u, m, amount) ==
  IF Exists(BudgetOf(b, u, m))
  THEN [b EXCEPT ![<<u, m>>].spentSoFar = @ - amount]
  ELSE b

(* faulty variant: the old impact is never reverted *)
SubtractSpentSkipped(b, u, m, amount) == b

(* Budget.findOne({user, month}); if (budget) { spentSoFar -= amount;            *)
(* if (spentSoFar < 0) spentSoFar = 0; save }                                    *)
SubtractSpent(b, u, m, amount) ==
  IF Exists(BudgetOf(b, u, m))
  THEN LET s == b[<<u, m>>].spentSoFar - amount
       IN [b EXCEPT ![<<u, m>>].spentSoFar = IF s < 0 THEN 0 ELSE s]
  ELSE b

(* faulty variant: = in place of += *)
AddSpentAssigned(b, u, m, amount) ==
  IF Exists(BudgetOf(b, u, m))
  THEN [b EXCEPT ![<<u, m>>].spentSoFar = amount]
  ELSE b

(* faulty variant: a missing aggregate is created on the fly *)
AddSpentUpsert(b, u, m, amount) ==
  IF Exists(BudgetOf(b, u, m))
  THEN [b EXCEPT ![<<u, m>>].spentSoFar = @ + amount]
  ELSE [b EXCEPT ![<<u, m>>] = [monthlyBudget |-> 1, spentSoFar |-> amount]]

(* faulty variant: the new impact is never applied *)
AddSpentSkipped(b, u, m, amount) == b

(* Budget.findOne({user, month}); if (budget) { spentSoFar += Number(amount); save } *)
AddSpent(b, u, m, amount) ==
  IF Exists(BudgetOf(b, u, m))
  THEN [b EXCEPT ![<<u, m>>].spentSoFar = @ + amount]
  ELSE b

(* ---------- handlers ---------- *)
Reject(op, u, id, status, arg) ==
  /\ last' = Response(op, u, id, status, arg)
  /\ prev' = Store
  /\ UNCHANGED <<txns, budgets, nextId, now, tz, others>>

(* POST /api/transactions *)
addTransaction(u, body) ==
  LET amount == body.amount
      type == body.type
      category == body.category
      date == body.date
  IN
  IF ~Truthy(amount) \/ ~Given(type) \/ ~Given(category) \/ ~Given(date)
  THEN Reject("add", u, 0, "400", Defects(body))
  ELSE IF amount[1] <= 0
  THEN Reject("add", u, 0, "400", Defects(body))
  ELSE IF ~transactionSchema(type[1], amount[1])
  THEN Reject("add", u, 0, "ValidationError", Defects(body))
  ELSE /\ nextId <= MaxTx
       /\ LET t == [user |-> u, type |-> type[1], category |-> category[1],
                    amount |-> amount[1], date |-> date[1],
                    mood |-> moodOf(body, "none")]
          IN /\ txns' = [txns EXCEPT ![nextId] = t]
             /\ budgets' = IF IsExpense(t)
                           THEN AddSpent(budgets, u, MonthOf(t.date), t.amount)
                           ELSE budgets
             /\ last' = Response("add", u, nextId, "ok", Defects(body))
             /\ prev' = Store
       /\ nextId' = nextId + 1
       /\ UNCHANGED <<now, tz, others>>

(* faulty variant: the created transaction is removed again when budget.save() rejects *)
addTransactionSaveFailsRolledBack(u, body) ==
  /\ Defects(body) = 0
  /\ transactionSchema(body.type[1], body.amount[1])
  /\ nextId <= MaxTx
  /\ IsExpense([type |-> body.type[1]])
  /\ Exists(budgets[<<u, MonthOf(body.date[1])>>])
  /\ last' = Response("add", u, nextId, "500", 0)
  /\ prev' = Store
  /\ nextId' = nextId + 1
  /\ UNCHANGED <<txns, budgets, now, tz, others>>

(* POST /api/transactions when budget.save() rejects (store error): Transaction.create *)
(* has already stored the transaction and nothing undoes it                           *)
addTransactionSaveFails(u, body) ==
  /\ Defects(body) = 0
  /\ transactionSchema(body.type[1], body.amount[1])
  /\ nextId <= MaxTx
  /\ LET t == [user |-> u, type |-> body.type[1], category |-> body.category[1],
               amount |-> body.amount[1], date |-> body.date[1],
               mood |-> moodOf(body, "none")]
     IN /\ IsExpense(t)
        /\ Exists(budgets[<<u, MonthOf(t.date)>>])
        /\ txns' = [txns EXCEPT ![nextId] = t]
        /\ last' = Response("add", u, nextId, "500", 0)
        /\ prev' = Store
  /\ nextId' = nextId + 1
  /\ UNCHANGED <<budgets, now, tz, others>>

(* DELETE /api/transactions/:id *)
deleteTransaction(u, id) ==
  LET transaction == txns[id]
  IN IF transaction = NoTx
     THEN Reject("delete", u, id, "404", 0)
     ELSE IF ~Owns(transaction, u)
     THEN Reject("delete", u, id, "401", 0)
     ELSE /\ budgets' = IF IsExpense(transaction)
                        THEN SubtractSpent(budgets, u, MonthOf(transaction.date),
                                           transaction.amount)
                        ELSE budgets
          /\ txns' = [txns EXCEPT ![id] = NoTx]
          /\ last' = Response("delete", u, id, "ok", 0)
          /\ prev' = Store
          /\ UNCHANGED <<nextId, now, tz, others>>

(* DELETE /api/transactions/:id when budget.save() rejects (store error): the throw *)
(* leaves the handler before transaction.deleteOne() is reached                    *)
deleteTransactionSaveFails(u, id) ==
  LET transaction == txns[id]
  IN /\ transaction # NoTx
     /\ Owns(transaction, u)
     /\ IsExpense(transaction)
     /\ Exists(budgets[<<u, MonthOf(transaction.date)>>])
     /\ last' = Response("delete", u, id, "500", 0)
     /\ prev' = Store
     /\ UNCHANGED <<txns, budgets, nextId, now, tz, others>>

(* PUT /api/transactions/:id *)
updateTransaction(u, id, body) ==
  LET transaction == txns[id]
      amount == body.amount
      type == body.type
      category == body.category
      date == body.date
  IN IF transaction = NoTx
     THEN Reject("update", u, id, "404", 0)
     ELSE IF ~Owns(transaction, u)
     THEN Reject("update", u, id, "401", 0)
     ELSE LET reverted == IF IsExpense(transaction)
                          THEN SubtractSpent(budgets, u, MonthOf(transaction.date),
                                             transaction.amount)
                          ELSE budgets
              updated == [user |-> transaction.user,
                          amount |-> IF Truthy(amount) THEN amount[1]
                                     ELSE transaction.amount,
                          type |-> IF Given(type) THEN type[1] ELSE transaction.type,
                          category |-> IF Given(category) THEN category[1]
                                       ELSE transaction.category,
                          date |-> IF Given(date) THEN date[1] ELSE transaction.date,
                          mood |-> moodOf(body, transaction.mood)]
          IN IF ~transactionSchema(updated.type, updated.amount)
             THEN (* transaction.save() rejects; oldBudget.save() has already run *)
                  /\ budgets' = reverted
                  /\ last' = Response("update", u, id, "ValidationError", 0)
                  /\ prev' = Store
                  /\ UNCHANGED <<txns, nextId, now, tz, others>>
             ELSE /\ txns' = [txns EXCEPT ![id] = updated]
                  /\ budgets' = IF IsExpense(updated)
                                THEN AddSpent(reverted, u, MonthOf(updated.date),
                                              updated.amount)
                                ELSE reverted
                  /\ last' = Response("update", u, id, "ok", 0)
                  /\ prev' = Store
                  /\ UNCHANGED <<nextId, now, tz, others>>

(* PUT /api/transactions/:id when oldBudget.save() rejects (store error): the throw *)
(* leaves the handler before the fields are assigned and transaction.save() is run  *)
updateTransactionRevertSaveFails(u, id, body) ==
  LET transaction == txns[id]
  IN /\ transaction # NoTx
     /\ Owns(transaction, u)
     /\ IsExpense(transaction)
     /\ Exists(budgets[<<u, MonthOf(transaction.date)>>])
     /\ last' = Response("update", u, id, "500", 1)
     /\ prev' = Store
     /\ UNCHANGED <<txns, budgets, nextId, now, tz, others>>

(* PUT /api/transactions/:id when newBudget.save() rejects (store error): the revert *)
(* and transaction.save() have already been written and nothing undoes them          *)
updateTransactionForwardSaveFails(u, id, body) ==
  LET transaction == txns[id]
      amount == body.amount
      type == body.type
      category == body.category
      date == body.date
      reverted == IF IsExpense(transaction)
                  THEN SubtractSpent(budgets, u, MonthOf(transaction.date),
                                     transaction.amount)
                  ELSE budgets
      updated == [user |-> transaction.user,
                  amount |-> IF Truthy(amount) THEN amount[1] ELSE transaction.amount,
                  type |-> IF Given(type) THEN type[1] ELSE transaction.type,
                  category |-> IF Given(category) THEN category[1]
                               ELSE transaction.category,
                  date |-> IF Given(date) THEN date[1] ELSE transaction.date,
                  mood |-> moodOf(body, transaction.mood)]
  IN /\ transaction # NoTx
     /\ Owns(transaction, u)
     /\ transactionSchema(updated.type, updated.amount)
     /\ IsExpense(updated)
     /\ Exists(reverted[<<u, MonthOf(updated.date)>>])
     /\ txns' = [txns EXCEPT ![id] = updated]
     /\ budgets' = reverted
     /\ last' = Response("update", u, id, "500", 2)
     /\ prev' = Store
     /\ UNCHANGED <<nextId, now, tz, others>>

(* POST /api/budget *)
setBudget(u, monthlyBudget) ==
  IF ~Truthy(monthlyBudget) \/ monthlyBudget[1] <= 0
  THEN Reject("setBudget", u, 0, "400", 0)
  ELSE LET month == getCurrentMonth
           startDate == MonthStartUTC(month)
           endDate == MonthEndLocal(MonthOf(startDate))
           spentSoFar == ScanExpenses(u, startDate, endDate)
       IN /\ budgets' = [budgets EXCEPT ![<<u, month>>] =
                           [monthlyBudget |-> monthlyBudget[1], spentSoFar |-> spentSoFar]]
          /\ last' = Response("setBudget", u, 0, "ok", monthlyBudget[1])
          /\ prev' = Store
          /\ UNCHANGED <<txns, nextId, now, tz, others>>

(* the wall clock advances *)
Tick ==
  /\ now < MaxTime
  /\ now' = now + 1
  /\ last' = Response("tick", "none", 0, "ok", 0)
  /\ prev' = Store
  /\ UNCHANGED <<txns, budgets, nextId, tz, others>>

DoAdd(U, B) == \E u \in U, body \in B : addTransaction(u, body)

DoDelete(U) == \E u \in U, id \in TxIds : deleteTransaction(u, id)

DoUpdate(U, B) == \E u \in U, id \in TxIds, body \in B : updateTransaction(u, id, body)

DoSetBudget(U) == \E u \in U, monthlyBudget \in BudgetInputs : setBudget(u, monthlyBudget)

(* one account, server on UTC *)
Solo == {"u1"}

(* the ledger and budget handlers do not depend on the query setting *)
InitUTC == Init /\ tz = 0 /\ ~strictQuery

Next ==
  \/ DoAdd(Solo, AddBodiesDateOnly)
  \/ DoDelete(Solo)
  \/ DoUpdate(Solo, UpdateBodiesDateOnly)
  \/ DoSetBudget(Solo)
  \/ Tick

Spec == InitUTC /\ [][Next]_vars

(* one account, server on UTC, the store may refuse an aggregate write *)
DoAddSaveFails(U, B) == \E u \in U, body \in B : addTransactionSaveFails(u, body)

DoDeleteSaveFails(U) == \E u \in U, id \in TxIds : deleteTransactionSaveFails(u, id)

DoUpdateRevertSaveFails(U, B) ==
  \E u \in U, id \in TxIds, body \in B : updateTransactionRevertSaveFails(u, id, body)

DoUpdateForwardSaveFails(U, B) ==
  \E u \in U, id \in TxIds, body \in B : updateTransactionForwardSaveFails(u, id, body)

NextFaults ==
  \/ DoAdd(Solo, AddBodiesDateOnly)
  \/ DoAddSaveFails(Solo, AddBodiesDateOnly)
  \/ DoDelete(Solo)
  \/ DoDeleteSaveFails(Solo)
  \/ DoUpdate(Solo, UpdateBodiesDateOnly)
  \/ DoUpdateRevertSaveFails(Solo, UpdateBodiesWellFormed)
  \/ DoUpdateForwardSaveFails(Solo, UpdateBodiesWellFormed)
  \/ DoSetBudget(Solo)
  \/ Tick

SpecFaults == InitUTC /\ [][NextFaults]_vars

(* two accounts sharing the store, server on UTC, well-formed bodies *)
NextOwners ==
  \/ DoAdd(Users, AddBodiesComplete)
  \/ DoDelete(Users)
  \/ DoUpdate(Users, UpdateBodiesWellFormed)
  \/ DoSetBudget(Users)

SpecOwners == InitUTC /\ [][NextOwners]_vars

(* one account, server in any time zone: the ledger grows, budgets are set *)
NextZones ==
  \/ DoAdd(Solo, AddBodies)
  \/ DoSetBudget(Solo)
  \/ Tick

InitZones == Init /\ ~strictQuery

SpecZones == InitZones /\ [][NextZones]_vars

(* ====================================================================== *)
(* The ledger handlers, one store operation (one await) at a time.        *)
(* procs holds the requests that passed their initial checks, in arrival  *)
(* order: the handler's position (pc) and its local variables.  A request *)
(* stays in procs, at pc "done", after its response was sent.             *)
(* ====================================================================== *)
MaxProcs == 2

NoBody == [amount |-> <<>>, type |-> <<>>, category |-> <<>>, date |-> <<>>]

(* the local variables of a handler: transaction as found (old) and as written (new), *)
(* the budget documents as read, and whether the aggregate of the month the request   *)
(* first touches equalled that month's expense sum when the request arrived           *)
Request(op, u, id, pc, body, old, new, synced) ==
  [op |-> op, user |-> u, id |-> id, pc |-> pc, body |-> body, old |-> old, new |-> new,
   oldBudget |-> NoBudget, newBudget |-> NoBudget, synced |-> synced]

SyncedAt(u, m) ==
  /\ Exists(budgets[<<u, m>>])
  /\ budgets[<<u, m>>].spentSoFar
       = SumAmounts(txns, {i \in TxIds : /\ txns[i].user = u
                                         /\ txns[i].type = "expense"
                                         /\ MonthOf(txns[i].date) = m})

(* a step of request p: its new position and locals, and what it answers *)
Step(p, r, status) ==
  /\ procs' = [procs EXCEPT ![p] = r]
  /\ last' = Response(r.op, r.user, r.id, status, p)
  /\ prev' = Store

(* faulty variant: the store adds to the value it holds ($inc) *)
saveAddedInc(b, k, read, amount) == [b EXCEPT ![k].spentSoFar = @ + amount]

(* budget.spentSoFar += Number(amount); await budget.save(): the document as read, *)
(* with the sum, replaces the stored value                                          *)
saveAdded(b, k, read, amount) == [b EXCEPT ![k].spentSoFar = read.spentSoFar + amount]

(* budget.spentSoFar -= amount; if (budget.spentSoFar < 0) budget.spentSoFar = 0; save *)
saveSubtracted(b, k, read, amount) ==
  [b EXCEPT ![k].spentSoFar = IF read.spentSoFar - amount < 0 THEN 0
                              ELSE read.spentSoFar - amount]

(* addTransaction: the checks and await Transaction.create(...) *)
addTransactionCreate(u, body) ==
  /\ Len(procs) < MaxProcs
  /\ Defects(body) = 0
  /\ transactionSchema(body.type[1], body.amount[1])
  /\ nextId <= MaxTx
  /\ LET t == [user |-> u, type |-> body.type[1], category |-> body.category[1],
               amount |-> body.amount[1], date |-> body.date[1],
               mood |-> moodOf(body, "none")]
         r == Request("add", u, nextId, IF IsExpense(t) THEN "findNew" ELSE "done",
                      body, NoTx, t, SyncedAt(u, MonthOf(t.date)))
     IN /\ txns' = [txns EXCEPT ![nextId] = t]
        /\ procs' = Append(procs, r)
        /\ last' = Response("add", u, nextId, IF IsExpense(t) THEN "create" ELSE "ok",
                            Len(procs) + 1)
        /\ prev' = Store
  /\ nextId' = nextId + 1
  /\ UNCHANGED <<budgets, now, tz, bills, alerts, prefs, strictQuery>>

(* addTransaction: await Budget.findOne({user, month}) *)
addTransactionFindOne(p) ==
  LET r == procs[p]
      k == <<r.user, MonthOf(r.new.date)>>
  IN /\ r.op = "add" /\ r.pc = "findNew"
     /\ IF Exists(budgets[k])
        THEN Step(p, [r EXCEPT !.pc = "saveNew", !.newBudget = budgets[k]], "findNew")
        ELSE Step(p, [r EXCEPT !.pc = "done"], "ok")
     /\ UNCHANGED <<txns, budgets, nextId, now, tz, bills, alerts, prefs, strictQuery>>

(* addTransaction: await budget.save() *)
addTransactionSave(p) ==
  LET r == procs[p]
      k == <<r.user, MonthOf(r.new.date)>>
  IN /\ r.op = "add" /\ r.pc = "saveNew"
     /\ budgets' = saveAdded(budgets, k, r.newBudget, r.new.amount)
     /\ Step(p, [r EXCEPT !.pc = "done"], "ok")
     /\ UNCHANGED <<txns, nextId, now, tz, bills, alerts, prefs, strictQuery>>

(* deleteTransaction: await Transaction.findById(id) and the two checks *)
deleteTransactionFindById(u, id) ==
  LET transaction == txns[id]
      r == Request("delete", u, id, IF IsExpense(transaction) THEN "findOld" ELSE "write",
                   NoBody, transaction, NoTx, SyncedAt(u, MonthOf(transaction.date)))
  IN /\ Len(procs) < MaxProcs
     /\ transaction # NoTx
     /\ Owns(transaction, u)
     /\ procs' = Append(procs, r)
     /\ last' = Response("delete", u, id, "findById", Len(procs) + 1)
     /\ prev' = Store
     /\ UNCHANGED <<txns, budgets, nextId, now, tz, bills, alerts, prefs, strictQuery>>

(* deleteTransaction: await Budget.findOne({user, month}) *)
deleteTransactionFindOne(p) ==
  LET r == procs[p]
      k == <<r.user, MonthOf(r.old.date)>>
  IN /\ r.op = "delete" /\ r.pc = "findOld"
     /\ IF Exists(budgets[k])
        THEN Step(p, [r EXCEPT !.pc = "saveOld", !.oldBudget = budgets[k]], "findOld")
        ELSE Step(p, [r EXCEPT !.pc = "write"], "findOld")
     /\ UNCHANGED <<txns, budgets, nextId, now, tz, bills, alerts, prefs, strictQuery>>

(* deleteTransaction: await budget.save() *)
deleteTransactionSave(p) ==
  LET r == procs[p]
      k == <<r.user, MonthOf(r.old.date)>>
  IN /\ r.op = "delete" /\ r.pc = "saveOld"
     /\ budgets' = saveSubtracted(budgets, k, r.oldBudget, r.old.amount)
     /\ Step(p, [r EXCEPT !.pc = "write"], "saveOld")
     /\ UNCHANGED <<txns, nextId, now, tz, bills, alerts, prefs, strictQuery>>

(* deleteTransaction: await transaction.deleteOne(); a document that is already gone *)
(* is not an error                                                                   *)
deleteTransactionDeleteOne(p) ==
  LET r == procs[p]
  IN /\ r.op = "delete" /\ r.pc = "write"
     /\ txns' = [txns EXCEPT ![r.id] = NoTx]
     /\ Step(p, [r EXCEPT !.pc = "done"], "ok")
     /\ UNCHANGED <<budgets, nextId, now, tz, bills, alerts, prefs, strictQuery>>
(* updateTransaction: await Transaction.findById(id) and the two checks *)
updateTransactionFindById(u, id, body) ==
  LET transaction == txns[id]
      updated == [user |-> transaction.user,
                  amount |-> IF Truthy(body.amount) THEN body.amount[1]
                             ELSE transaction.amount,
                  type |-> IF Given(body.type) THEN body.type[1] ELSE transaction.type,
                  category |-> IF Given(body.category) THEN body.category[1]
                               ELSE transaction.category,
                  date |-> IF Given(body.date) THEN body.date[1] ELSE transaction.date,
                  mood |-> moodOf(body, transaction.mood)]
      r == Request("update", u, id, IF IsExpense(transaction) THEN "findOld" ELSE "write",
                   body, transaction, updated, SyncedAt(u, MonthOf(transaction.date)))
  IN /\ Len(procs) < MaxProcs
     /\ transaction # NoTx
     /\ Owns(transaction, u)
     /\ procs' = Append(procs, r)
     /\ last' = Response("update", u, id, "findById", Len(procs) + 1)
     /\ prev' = Store
     /\ UNCHANGED <<txns, budgets, nextId, now, tz, bills, alerts, prefs, strictQuery>>

(* updateTransaction: const oldBudget = await Budget.findOne({user, month: oldMonth}) *)
updateTransactionFindOld(p) ==
  LET r == procs[p]
      k == <<r.user, MonthOf(r.old.date)>>
  IN /\ r.op = "update" /\ r.pc = "findOld"
     /\ IF Exists(budgets[k])
        THEN Step(p, [r EXCEPT !.pc = "saveOld", !.oldBudget = budgets[k]], "findOld")
        ELSE Step(p, [r EXCEPT !.pc = "write"], "findOld")
     /\ UNCHANGED <<txns, budgets, nextId, now, tz, bills, alerts, prefs, strictQuery>>

(* updateTransaction: await oldBudget.save() *)
updateTransactionSaveOld(p) ==
  LET r == procs[p]
      k == <<r.user, MonthOf(r.old.date)>>
  IN /\ r.op = "update" /\ r.pc = "saveOld"
     /\ budgets' = saveSubtracted(budgets, k, r.oldBudget, r.old.amount)
     /\ Step(p, [r EXCEPT !.pc = "write"], "saveOld")
     /\ UNCHANGED <<txns, nextId, now, tz, bills, alerts, prefs, strictQuery>>

(* updateTransaction: await transaction.save().  The validators run first; the write *)
(* sets the paths the handler changed and fails when the document is gone            *)
updateTransactionSave(p) ==
  LET r == procs[p]
      stored == txns[r.id]
      written == [user |-> stored.user,
                  amount |-> IF r.new.amount # r.old.amount THEN r.new.amount
                             ELSE stored.amount,
                  type |-> IF r.new.type # r.old.type THEN r.new.type ELSE stored.type,
                  category |-> IF r.new.category # r.old.category THEN r.new.category
                               ELSE stored.category,
                  date |-> IF r.new.date # r.old.date THEN r.new.date ELSE stored.date,
                  mood |-> IF r.new.mood # r.old.mood THEN r.new.mood ELSE stored.mood]
      next == IF IsExpense(r.new) THEN "findNew" ELSE "done"
  IN /\ r.op = "update" /\ r.pc = "write"
     /\ IF ~transactionSchema(r.new.type, r.new.amount)
        THEN /\ Step(p, [r EXCEPT !.pc = "done"], "ValidationError")
             /\ UNCHANGED txns
        ELSE IF r.new = r.old
        THEN /\ Step(p, [r EXCEPT !.pc = next], IF next = "done" THEN "ok" ELSE "write")
             /\ UNCHANGED txns
        ELSE IF stored = NoTx
        THEN /\ Step(p, [r EXCEPT !.pc = "done"], "500")
             /\ UNCHANGED txns
        ELSE /\ txns' = [txns EXCEPT ![r.id] = written]
             /\ Step(p, [r EXCEPT !.pc = next], IF next = "done" THEN "ok" ELSE "write")
     /\ UNCHANGED <<budgets, nextId, now, tz, bills, alerts, prefs, strictQuery>>

(* updateTransaction: const newBudget = await Budget.findOne({user, month: newMonth}) *)
updateTransactionFindNew(p) ==
  LET r == procs[p]
      k == <<r.user, MonthOf(r.new.date)>>
  IN /\ r.op = "update" /\ r.pc = "findNew"
     /\ IF Exists(budgets[k])
        THEN Step(p, [r EXCEPT !.pc = "saveNew", !.newBudget = budgets[k]], "findNew")
        ELSE Step(p, [r EXCEPT !.pc = "done"], "ok")
     /\ UNCHANGED <<txns, budgets, nextId, now, tz, bills, alerts, prefs, strictQuery>>

(* updateTransaction: await newBudget.save() *)
updateTransactionSaveNew(p) ==
  LET r == procs[p]
      k == <<r.user, MonthOf(r.new.date)>>
  IN /\ r.op = "update" /\ r.pc = "saveNew"
     /\ budgets' = saveAdded(budgets, k, r.newBudget, r.new.amount)
     /\ Step(p, [r EXCEPT !.pc = "done"], "ok")
     /\ UNCHANGED <<txns, nextId, now, tz, bills, alerts, prefs, strictQuery>>

(* requests on expenses of one month: complete expense bodies dated 0, amount edits *)
AddBodiesExpense ==
  {body \in AddBodiesComplete : body.type = <<"expense">> /\ body.date = <<0>>}
UpdateBodiesAmount ==
  {body \in UpdateBodiesWellFormed :
     Given(body.amount) /\ body.type = <<>> /\ body.category = <<>> /\ body.date = <<>>}

StepAdd ==
  \E p \in DOMAIN procs : addTransactionFindOne(p) \/ addTransactionSave(p)

StepDelete ==
  \E p \in DOMAIN procs :
    deleteTransactionFindOne(p) \/ deleteTransactionSave(p) \/ deleteTransactionDeleteOne(p)

StepUpdate ==
  \E p \in DOMAIN procs :
    \/ updateTransactionFindOld(p)
    \/ updateTransactionSaveOld(p)
    \/ updateTransactionSave(p)
    \/ updateTransactionFindNew(p)
    \/ updateTransactionSaveNew(p)

(* one account, server on UTC: a budget is set, then requests overlap *)
NextRace ==
  \/ DoSetBudget(Solo)
  \/ \E body \in AddBodiesExpense : addTransactionCreate("u1", body)
  \/ \E id \in TxIds : deleteTransactionFindById("u1", id)
  \/ \E id \in TxIds, body \in UpdateBodiesAmount : updateTransactionFindById("u1", id, body)
  \/ StepAdd
  \/ StepDelete
  \/ StepUpdate

SpecRace == InitUTC /\ [][NextRace]_vars

(* ---------- setBudget, one store operation (one await) at a time ---------- *)
(* The request keeps the budget asked for, the sum of the expenses it found and the  *)
(* budget document as read.                                                          *)

(* setBudget: the check and await Transaction.find({user, type: "expense", date}) *)
setBudgetFind(u, monthlyBudget) ==
  IF ~Truthy(monthlyBudget) \/ monthlyBudget[1] <= 0
  THEN Reject("setBudget", u, 0, "400", 0)
  ELSE LET month == getCurrentMonth
           startDate == MonthStartUTC(month)
           endDate == MonthEndLocal(MonthOf(startDate))
           r == [Request("setBudget", u, 0, "findOne", NoBody, NoTx, NoTx,
                         SyncedAt(u, month))
                   EXCEPT !.newBudget = [monthlyBudget |-> monthlyBudget[1],
                                         spentSoFar |-> ScanExpenses(u, startDate, endDate)]]
       IN /\ Len(procs) < MaxProcs
          /\ procs' = Append(procs, [r EXCEPT !.id = month])
          /\ last' = Response("setBudget", u, month, "find", Len(procs) + 1)
          /\ prev' = Store
          /\ UNCHANGED <<txns, budgets, nextId, now, tz, bills, alerts, prefs, strictQuery>>

(* setBudget: let budget = await Budget.findOne({user, month}) *)
setBudgetFindOne(p) ==
  LET r == procs[p]
  IN /\ r.op = "setBudget" /\ r.pc = "findOne"
     /\ Step(p, [r EXCEPT !.oldBudget = budgets[<<r.user, r.id>>],
                          !.pc = IF Exists(budgets[<<r.user, r.id>>]) THEN "save"
                                 ELSE "create"], "findOne")
     /\ UNCHANGED <<txns, budgets, nextId, now, tz, bills, alerts, prefs, strictQuery>>

(* budget.monthlyBudget = monthlyBudget; budget.spentSoFar = spentSoFar; await       *)
(* budget.save(): the paths whose value differs from the document as read are sent   *)
saveBudget(b, k, read, asked) ==
  [b EXCEPT ![k].monthlyBudget = IF asked.monthlyBudget # read.monthlyBudget
                                 THEN asked.monthlyBudget ELSE @,
            ![k].spentSoFar = IF asked.spentSoFar # read.spentSoFar
                              THEN asked.spentSoFar ELSE @]

(* setBudget: await budget.save() *)
setBudgetSave(p) ==
  LET r == procs[p]
  IN /\ r.op = "setBudget" /\ r.pc = "save"
     /\ budgets' = saveBudget(budgets, <<r.user, r.id>>, r.oldBudget, r.newBudget)
     /\ Step(p, [r EXCEPT !.pc = "done"], "ok")
     /\ UNCHANGED <<txns, nextId, now, tz, bills, alerts, prefs, strictQuery>>

(* setBudget: await Budget.create({user, month, monthlyBudget, spentSoFar}); the     *)
(* unique index on (user, month) refuses a second document                           *)
setBudgetCreate(p) ==
  LET r == procs[p]
      k == <<r.user, r.id>>
  IN /\ r.op = "setBudget" /\ r.pc = "create"
     /\ IF Exists(budgets[k])
        THEN /\ Step(p, [r EXCEPT !.pc = "done"], "500")
             /\ UNCHANGED budgets
        ELSE /\ budgets' = [budgets EXCEPT ![k] = r.newBudget]
             /\ Step(p, [r EXCEPT !.pc = "done"], "ok")
     /\ UNCHANGED <<txns, nextId, now, tz, bills, alerts, prefs, strictQuery>>

StepSetBudget ==
  \E p \in DOMAIN procs : setBudgetFindOne(p) \/ setBudgetSave(p) \/ setBudgetCreate(p)

(* one account, server on UTC: a budget and expenses of the current month are entered *)
(* while no request is in flight; then setBudget and ledger requests overlap          *)
NextSync ==
  \/ procs = <<>> /\ DoSetBudget(Solo)
  \/ procs = <<>> /\ \E body \in AddBodiesExpense : addTransaction("u1", body)
  \/ \E monthlyBudget \in BudgetInputs : setBudgetFind("u1", monthlyBudget)
  \/ \E body \in AddBodiesExpense : addTransactionCreate("u1", body)
  \/ \E id \in TxIds : deleteTransactionFindById("u1", id)
  \/ \E id \in TxIds, body \in UpdateBodiesAmount : updateTransactionFindById("u1", id, body)
  \/ StepSetBudget
  \/ StepAdd
  \/ StepDelete
  \/ StepUpdate

SpecSync == InitUTC /\ [][NextSync]_vars

(* ====================================================================== *)
(* Alerts (alertService).  alerts is the Alert collection in creation     *)
(* order.  A stored alert carries the metadata paths of alertSchema only: *)
(* the schema has no metadata.month, so the month that                    *)
(* generateBudgetAlerts passes to Alert.create is not stored.  The TTL    *)
(* index (30 days) lies beyond the times modelled here.                   *)
(* ====================================================================== *)
MaxAlerts == 3

(* Math.round(num / den) for num >= 0, den > 0 *)
Round(num, den) == (2 * num + den) \div (2 * den)

Alert(u, type, severity, message, n, billId, category) ==
  [user |-> u, type |-> type, severity |-> severity, message |-> message, n |-> n,
   billId |-> billId, category |-> category, isRead |-> FALSE, createdAt |-> now]

(* usage = spentSoFar / monthlyBudget * 100 against the thresholds 100, 90, 75, 50 *)
budgetSeverity(spentSoFar, monthlyBudget) ==
  IF spentSoFar * 100 >= 100 * monthlyBudget THEN "high"
  ELSE IF spentSoFar * 100 >= 90 * monthlyBudget THEN "high"
  ELSE IF spentSoFar * 100 >= 75 * monthlyBudget THEN "medium"
  ELSE IF spentSoFar * 100 >= 50 * monthlyBudget THEN "low"
  ELSE "none"

budgetMessage(spentSoFar, monthlyBudget) ==
  IF spentSoFar * 100 >= 100 * monthlyBudget THEN "exceeded" ELSE "used"

(* Alert.deleteMany({user, type: "budget", "metadata.month": month}): under strictQuery *)
(* the path metadata.month, unknown to alertSchema, is dropped from the filter;        *)
(* otherwise the filter matches no stored alert, since none carries metadata.month     *)
deleteBudgetAlerts(A, u, month) ==
  IF strictQuery
  THEN SelectSeq(A, LAMBDA a : ~(a.user = u /\ a.type = "budget"))
  ELSE A

(* the Alert collection after generateBudgetAlerts(userId) has run to its end *)
budgetAlertsAfter(A, u) ==
  LET month == getCurrentMonth
      budget == budgets[<<u, month>>]
      severity == budgetSeverity(budget.spentSoFar, budget.monthlyBudget)
      kept == deleteBudgetAlerts(A, u, month)
  IN IF ~Exists(budget) \/ budget.monthlyBudget = 0 THEN A
     ELSE IF severity = "none" THEN kept
     ELSE Append(kept, Alert(u, "budget", severity,
                             budgetMessage(budget.spentSoFar, budget.monthlyBudget),
                             Round(budget.spentSoFar * 100, budget.monthlyBudget),
                             0, "none"))

generateBudgetAlerts(u) ==
  /\ Len(alerts) < MaxAlerts
  /\ alerts' = budgetAlertsAfter(alerts, u)
  /\ last' = Response("generateBudgetAlerts", u, 0, "ok", 0)
  /\ prev' = Store
  /\ UNCHANGED <<txns, budgets, nextId, now, tz, bills, prefs, strictQuery, procs>>

(* ---------- bills (billController) and their alerts ---------- *)
(* A bill is kept as (user, status, dueDate); billName and amount are checked by       *)
(* createBill and play no further part.  A day has TicksPerDay ticks.                  *)
MaxBills == 2
TicksPerDay == 2

Bill(u, status, dueDate) == [user |-> u, status |-> status, dueDate |-> dueDate]

billSchema(status) == status \in {"pending", "paid"}

(* POST /api/bills *)
createBill(u, body) ==
  IF ~Given(body.billName) \/ ~Truthy(body.amount) \/ ~Given(body.dueDate)
  THEN /\ last' = Response("createBill", u, 0, "400", 0)
       /\ prev' = Store
       /\ UNCHANGED <<txns, budgets, nextId, now, tz, bills, alerts, prefs, strictQuery, procs>>
  ELSE IF body.amount[1] <= 0
  THEN /\ last' = Response("createBill", u, 0, "400", 0)
       /\ prev' = Store
       /\ UNCHANGED <<txns, budgets, nextId, now, tz, bills, alerts, prefs, strictQuery, procs>>
  ELSE LET status == IF Given(body.status) THEN body.status[1] ELSE "pending"
       IN IF ~billSchema(status)
          THEN /\ last' = Response("createBill", u, 0, "ValidationError", 0)
               /\ prev' = Store
               /\ UNCHANGED <<txns, budgets, nextId, now, tz, bills, alerts, prefs,
                              strictQuery, procs>>
          ELSE /\ Len(bills) < MaxBills
               /\ bills' = Append(bills, Bill(u, status, body.dueDate[1]))
               /\ last' = Response("createBill", u, Len(bills) + 1, "ok", 0)
               /\ prev' = Store
               /\ UNCHANGED <<txns, budgets, nextId, now, tz, alerts, prefs, strictQuery, procs>>

(* PUT /api/bills/:id/paid *)
markBillAsPaid(u, id) ==
  /\ IF id \notin DOMAIN bills \/ bills[id] = NoBill
     THEN last' = Response("markBillAsPaid", u, id, "404", 0) /\ UNCHANGED bills
     ELSE IF bills[id].user # u
     THEN last' = Response("markBillAsPaid", u, id, "401", 0) /\ UNCHANGED bills
     ELSE /\ bills' = [bills EXCEPT ![id].status = "paid"]
          /\ last' = Response("markBillAsPaid", u, id, "ok", 0)
  /\ prev' = Store
  /\ UNCHANGED <<txns, budgets, nextId, now, tz, alerts, prefs, strictQuery, procs>>

(* DELETE /api/bills/:id *)
deleteBill(u, id) ==
  /\ IF id \notin DOMAIN bills \/ bills[id] = NoBill
     THEN last' = Response("deleteBill", u, id, "404", 0) /\ UNCHANGED bills
     ELSE IF bills[id].user # u
     THEN last' = Response("deleteBill", u, id, "401", 0) /\ UNCHANGED bills
     ELSE /\ bills' = [bills EXCEPT ![id] = NoBill]
          /\ last' = Response("deleteBill", u, id, "ok", 0)
  /\ prev' = Store
  /\ UNCHANGED <<txns, budgets, nextId, now, tz, alerts, prefs, strictQuery, procs>>

(* Math.ceil(a / d) for d > 0 *)
Ceil(a, d) == -((-a) \div d)

(* Math.ceil((dueDate - now) / (1000 * 60 * 60 * 24)) *)
diffDays(dueDate, t) == Ceil(dueDate - t, TicksPerDay)

(* faulty variant: a bill due in exactly 3 days falls into the low band *)
billSeverityEarly(d) ==
  IF d < 0 THEN "high"
  ELSE IF d = 0 THEN "high"
  ELSE IF d = 1 THEN "medium"
  ELSE IF d < 3 THEN "medium"
  ELSE IF d <= 7 THEN "low"
  ELSE "none"

(* the if / else-if chain on diffDays: severity, or "none" for continue *)
billSeverity(d) ==
  IF d < 0 THEN "high"
  ELSE IF d = 0 THEN "high"
  ELSE IF d = 1 THEN "medium"
  ELSE IF d <= 3 THEN "medium"
  ELSE IF d <= 7 THEN "low"
  ELSE "none"

billMessage(d) ==
  IF d < 0 THEN "overdue"
  ELSE IF d = 0 THEN "due today"
  ELSE IF d = 1 THEN "due tomorrow"
  ELSE "due in N days"

(* faulty variant: paid bills are fetched too *)
billsFoundAnyStatus(u) == {i \in DOMAIN bills : bills[i].user = u}

(* Bill.find({user: userId, status: {$ne: "paid"}}) *)
billsFound(u) == {i \in DOMAIN bills : bills[i].user = u /\ bills[i].status # "paid"}

(* faulty variant: every bill alert in the collection is removed *)
deleteBillAlertsOfAll(A, u) == SelectSeq(A, LAMBDA a : a.type # "bill")

(* faulty variant: the old bill alerts stay until the new ones are written *)
deleteBillAlertsKept(A, u) == A

(* Alert.deleteMany({user: userId, type: "bill"}) *)
deleteBillAlerts(A, u) == SelectSeq(A, LAMBDA a : ~(a.user = u /\ a.type = "bill"))

(* one pass of the for loop: the alert of a fetched bill, if it calls for one *)
createBillAlert(A, u, id, bill, t) ==
  LET d == diffDays(bill.dueDate, t)
  IN IF billSeverity(d) = "none" THEN A
     ELSE Append(A, Alert(u, "bill", billSeverity(d), billMessage(d), d, id, "none"))

(* the for loop over the fetched bills, from the i-th on, in the order of the find *)
RECURSIVE createBillAlerts(_, _, _, _, _)
createBillAlerts(A, u, found, i, t) ==
  IF i > Len(bills) THEN A
  ELSE createBillAlerts(IF i \in found THEN createBillAlert(A, u, i, bills[i], t) ELSE A,
                        u, found, i + 1, t)

(* the Alert collection after generateBillAlerts(userId) has run to its end *)
billAlertsAfter(A, u) == createBillAlerts(deleteBillAlerts(A, u), u, billsFound(u), 1, now)

generateBillAlerts(u) ==
  /\ alerts' = billAlertsAfter(alerts, u)
  /\ last' = Response("generateBillAlerts", u, 0, "ok", 0)
  /\ prev' = Store
  /\ UNCHANGED <<txns, budgets, nextId, now, tz, bills, prefs, strictQuery, procs>>

(* due dates: midnight of the days on both sides of every band, and the tick before it *)
DueDays == {-1, 0, 1, 2, 3, 4, 7, 8}
DueDates == {d * TicksPerDay - r : d \in DueDays, r \in {0, 1}}

(* bill requests: complete ones, and ones with a single absent or invalid field *)
BillBodiesComplete ==
  [billName : {<<"Rent">>}, amount : {<<1>>}, dueDate : {<<d>> : d \in DueDates},
   status : {<<>>, <<"paid">>}]

BillBodiesRejected ==
  {[billName |-> <<>>, amount |-> <<1>>, dueDate |-> <<0>>, status |-> <<>>],
   [billName |-> <<"Rent">>, amount |-> <<>>, dueDate |-> <<0>>, status |-> <<>>],
   [billName |-> <<"Rent">>, amount |-> <<0>>, dueDate |-> <<0>>, status |-> <<>>],
   [billName |-> <<"Rent">>, amount |-> <<-1>>, dueDate |-> <<0>>, status |-> <<>>],
   [billName |-> <<"Rent">>, amount |-> <<1>>, dueDate |-> <<>>, status |-> <<>>],
   [billName |-> <<"Rent">>, amount |-> <<1>>, dueDate |-> <<0>>, status |-> <<"other">>]}

BillBodies == BillBodiesComplete \cup BillBodiesRejected

BillIds == 1..MaxBills

(* one account, server on UTC: bills are created, paid and deleted, alerts regenerated *)
NextBills ==
  \/ \E body \in BillBodies : createBill("u1", body)
  \/ \E id \in BillIds : markBillAsPaid("u1", id)
  \/ \E id \in BillIds : deleteBill("u1", id)
  \/ generateBillAlerts("u1")

SpecBills == InitUTC /\ [][NextBills]_vars

(* ---------- trend alerts ---------- *)
(* req.user.id is the string form of the user's _id; the stored user of a document is *)
(* an ObjectId.  Queries made through find / findOne / deleteMany / create are cast   *)
(* to the schema; the stages of Transaction.aggregate are sent as written.            *)
StringId(u) == <<"String", u>>
ObjectId(u) == <<"ObjectId", u>>
castObjectId(userId) == userId[2]

TrendCategories == <<"Food", "Shopping">>

(* 7 * 24 * 60 * 60 * 1000 and 14 * 24 * 60 * 60 * 1000 ms, in days *)
OneWeekDays == 7
TwoWeeksDays == 14
oneWeekAgo == now - OneWeekDays * TicksPerDay
twoWeeksAgo == now - TwoWeeksDays * TicksPerDay

(* $match: {user: userId, type: "expense", date: {$gte: twoWeeksAgo, $lt: oneWeekAgo}} *)
lastWeekMatch(userId, i) ==
  /\ ObjectId(txns[i].user) = userId
  /\ txns[i].type = "expense"
  /\ txns[i].date >= twoWeeksAgo /\ txns[i].date < oneWeekAgo

(* $match: {user: userId, type: "expense", date: {$gte: oneWeekAgo, $lte: now}} *)
thisWeekMatch(userId, i) ==
  /\ ObjectId(txns[i].user) = userId
  /\ txns[i].type = "expense"
  /\ txns[i].date >= oneWeekAgo /\ txns[i].date <= now

(* $group: {_id: "$category", amount: {$sum: "$amount"}}: the amount of category c, *)
(* 0 when the group is absent                                                       *)
thisWeekAmount(userId, c) ==
  SumAmounts(txns, {i \in TxIds : thisWeekMatch(userId, i) /\ txns[i].category = c})
lastWeekAmount(userId, c) ==
  SumAmounts(txns, {i \in TxIds : lastWeekMatch(userId, i) /\ txns[i].category = c})

(* increasePercent = (thisWeek - lastWeek) / lastWeek * 100 against 20 and 50 *)
trendSeverity(thisWeek, lastWeek) ==
  IF lastWeek = 0 THEN "none"
  ELSE IF (thisWeek - lastWeek) * 100 >= 50 * lastWeek THEN "high"
  ELSE IF (thisWeek - lastWeek) * 100 >= 20 * lastWeek THEN "medium"
  ELSE "none"

(* Alert.deleteMany({user: userId, type: "trend"}) *)
deleteTrendAlerts(A, u) == SelectSeq(A, LAMBDA a : ~(a.user = u /\ a.type = "trend"))

(* one pass of the for loop over thisWeekExpenses *)
createTrendAlert(A, userId, c) ==
  LET thisWeek == thisWeekAmount(userId, c)
      lastWeek == lastWeekAmount(userId, c)
      severity == trendSeverity(thisWeek, lastWeek)
  IN IF \A i \in TxIds : ~(thisWeekMatch(userId, i) /\ txns[i].category = c) THEN A
     ELSE IF severity = "none" THEN A
     ELSE Append(A, Alert(castObjectId(userId), "trend", severity, "increased",
                          Round((thisWeek - lastWeek) * 100, lastWeek), 0, c))

(* the for loop, from the j-th category on (the groups are taken in a fixed order) *)
RECURSIVE createTrendAlerts(_, _, _)
createTrendAlerts(A, userId, j) ==
  IF j > Len(TrendCategories) THEN A
  ELSE createTrendAlerts(createTrendAlert(A, userId, TrendCategories[j]), userId, j + 1)

(* the Alert collection after generateTrendAlerts(userId) has run to its end *)
trendAlertsAfter(A, userId) ==
  createTrendAlerts(deleteTrendAlerts(A, castObjectId(userId)), userId, 1)

generateTrendAlerts(userId) ==
  /\ alerts' = trendAlertsAfter(alerts, userId)
  /\ last' = Response("generateTrendAlerts", castObjectId(userId), 0, "ok", 0)
  /\ prev' = Store
  /\ UNCHANGED <<txns, budgets, nextId, now, tz, bills, prefs, strictQuery, procs>>

(* one account, server on UTC: expenses dated around the two windows, regenerations *)
TrendAmounts == {5, 6, 7, 10, 12, 14, 15}
TrendDates ==
  {twoWeeksAgo - 1, twoWeeksAgo, oneWeekAgo - 1, oneWeekAgo, now, now + 1}

AddBodiesTrend ==
  [amount : {<<a>> : a \in TrendAmounts}, type : {<<"expense">>, <<"income">>},
   category : {<<TrendCategories[j]>> : j \in DOMAIN TrendCategories},
   date : {<<d>> : d \in TrendDates}]

NextTrend ==
  \/ \E body \in AddBodiesTrend : addTransaction("u1", body)
  \/ DoDelete(Solo)
  \/ generateTrendAlerts(StringId("u1"))

SpecTrend == InitUTC /\ [][NextTrend]_vars

(* ---------- the generators, one store operation (one await) at a time ---------- *)
(* generateAllAlerts starts the three generators at once (Promise.all); each is a    *)
(* request in procs with its position and locals: the budget read, the bills found   *)
(* (as read), the two weekly group results.  run numbers the calls in flight; start   *)
(* is the Alert collection when the call began and alone whether no other call        *)
(* overlapped it.  The generators of a call leave procs when the call answers.        *)
MaxRuns == 1

Runs == {procs[p].run : p \in {q \in DOMAIN procs : procs[q].op \in
           {"generateBudgetAlerts", "generateBillAlerts", "generateTrendAlerts"}}}

Generator(op, userId, run, pc) ==
  [op |-> op, user |-> castObjectId(userId), userId |-> userId, run |-> run, pc |-> pc,
   id |-> 0, month |-> getCurrentMonth, t |-> now, start |-> alerts,
   alone |-> procs = <<>>,
   budget |-> NoBudget, found |-> {}, docs |-> <<>>,
   thisWeek |-> <<>>, lastWeek |-> <<>>, idx |-> 1]

RunDone(P, run) == \A q \in DOMAIN P : P[q].run = run => P[q].pc = "done"

(* a step of generator p; the call answers when its three generators have returned: *)
(* the answer is recorded with the collection the call started from and whether it  *)
(* ran alone                                                                         *)
StepRun(p, r) ==
  LET P == [procs EXCEPT ![p] = r]
  IN /\ procs' = IF RunDone(P, r.run) THEN SelectSeq(P, LAMBDA q : q.run # r.run) ELSE P
     /\ last' = IF RunDone(P, r.run)
                THEN Response("generateAllAlerts", r.user, r.run, "ok",
                              [start |-> r.start, alone |-> r.alone])
                ELSE Response(r.op, r.user, r.run, r.pc, 0)
     /\ prev' = Store

(* POST /api/alerts/generate: await generateAllAlerts(req.user.id), with at most *)
(* maxRuns calls in flight                                                       *)
generateAllAlertsOf(userId, maxRuns) ==
  LET run == CHOOSE n \in 1..maxRuns : n \notin Runs
  IN /\ Cardinality(Runs) < maxRuns
     /\ Len(alerts) < MaxAlerts
     /\ procs' = [q \in DOMAIN procs |-> [procs[q] EXCEPT !.alone = FALSE]]
                  \o <<Generator("generateBudgetAlerts", userId, run, "findOne"),
                       Generator("generateBillAlerts", userId, run, "find"),
                       Generator("generateTrendAlerts", userId, run, "thisWeek")>>
     /\ last' = Response("generateAllAlerts", castObjectId(userId), run, "started", 0)
     /\ prev' = Store
     /\ UNCHANGED <<txns, budgets, nextId, now, tz, bills, alerts, prefs, strictQuery>>

generateAllAlerts(userId) == generateAllAlertsOf(userId, MaxRuns)

(* generateBudgetAlerts: await Budget.findOne({user: userId, month}) *)
generateBudgetAlertsFindOne(p) ==
  LET r == procs[p]
      budget == BudgetOf(budgets, r.user, r.month)
  IN /\ r.op = "generateBudgetAlerts" /\ r.pc = "findOne"
     /\ StepRun(p, [r EXCEPT !.budget = budget,
                             !.pc = IF ~Exists(budget) \/ budget.monthlyBudget = 0
                                    THEN "done" ELSE "deleteMany"])
     /\ UNCHANGED <<txns, budgets, nextId, now, tz, bills, alerts, prefs, strictQuery>>

(* generateBudgetAlerts: await Alert.deleteMany({...}) *)
generateBudgetAlertsDeleteMany(p) ==
  LET r == procs[p]
  IN /\ r.op = "generateBudgetAlerts" /\ r.pc = "deleteMany"
     /\ alerts' = deleteBudgetAlerts(alerts, r.user, r.month)
     /\ StepRun(p, [r EXCEPT !.pc = IF budgetSeverity(r.budget.spentSoFar,
                                                     r.budget.monthlyBudget) = "none"
                                    THEN "done" ELSE "create"])
     /\ UNCHANGED <<txns, budgets, nextId, now, tz, bills, prefs, strictQuery>>

(* generateBudgetAlerts: await Alert.create({...}) *)
generateBudgetAlertsCreate(p) ==
  LET r == procs[p]
  IN /\ r.op = "generateBudgetAlerts" /\ r.pc = "create"
     /\ alerts' = Append(alerts,
                         Alert(r.user, "budget",
                               budgetSeverity(r.budget.spentSoFar, r.budget.monthlyBudget),
                               budgetMessage(r.budget.spentSoFar, r.budget.monthlyBudget),
                               Round(r.budget.spentSoFar * 100, r.budget.monthlyBudget),
                               0, "none"))
     /\ StepRun(p, [r EXCEPT !.pc = "done"])
     /\ UNCHANGED <<txns, budgets, nextId, now, tz, bills, prefs, strictQuery>>

(* the fetched bills, from the i-th on, that call for an alert *)
billsToAlert(r, i) ==
  {j \in r.found : j >= i /\ billSeverity(diffDays(r.docs[j].dueDate, r.t)) # "none"}

(* generateBillAlerts: await Bill.find({user: userId, status: {$ne: "paid"}}) *)
generateBillAlertsFind(p) ==
  LET r == procs[p]
  IN /\ r.op = "generateBillAlerts" /\ r.pc = "find"
     /\ StepRun(p, [r EXCEPT !.found = billsFound(r.user), !.docs = bills,
                             !.pc = "deleteMany"])
     /\ UNCHANGED <<txns, budgets, nextId, now, tz, bills, alerts, prefs, strictQuery>>

(* generateBillAlerts: await Alert.deleteMany({user: userId, type: "bill"}) *)
generateBillAlertsDeleteMany(p) ==
  LET r == procs[p]
  IN /\ r.op = "generateBillAlerts" /\ r.pc = "deleteMany"
     /\ alerts' = deleteBillAlerts(alerts, r.user)
     /\ StepRun(p, [r EXCEPT !.pc = IF billsToAlert(r, 1) = {} THEN "done" ELSE "create"])
     /\ UNCHANGED <<txns, budgets, nextId, now, tz, bills, prefs, strictQuery>>

(* generateBillAlerts: await Alert.create({...}) for the next fetched bill that calls *)
(* for an alert                                                                       *)
generateBillAlertsCreate(p) ==
  LET r == procs[p]
      j == CHOOSE j \in billsToAlert(r, r.idx) : \A k \in billsToAlert(r, r.idx) : j <= k
  IN /\ r.op = "generateBillAlerts" /\ r.pc = "create"
     /\ alerts' = createBillAlert(alerts, r.user, j, r.docs[j], r.t)
     /\ StepRun(p, [r EXCEPT !.idx = j + 1,
                             !.pc = IF billsToAlert(r, j + 1) = {} THEN "done"
                                    ELSE "create"])
     /\ UNCHANGED <<txns, budgets, nextId, now, tz, bills, prefs, strictQuery>>

(* the groups read, from the j-th on, that call for an alert: a group absent this *)
(* week is not visited, one absent last week counts as 0                          *)
trendsToAlert(r, j) ==
  {k \in DOMAIN TrendCategories :
     /\ k >= j
     /\ r.thisWeek[k].present
     /\ trendSeverity(r.thisWeek[k].amount, r.lastWeek[k].amount) # "none"}

(* generateTrendAlerts: await Transaction.aggregate([...]) for this week *)
generateTrendAlertsThisWeek(p) ==
  LET r == procs[p]
  IN /\ r.op = "generateTrendAlerts" /\ r.pc = "thisWeek"
     /\ StepRun(p, [r EXCEPT
           !.thisWeek = [k \in DOMAIN TrendCategories |->
                           [present |-> \E i \in TxIds :
                                          /\ thisWeekMatch(r.userId, i)
                                          /\ txns[i].category = TrendCategories[k],
                            amount |-> thisWeekAmount(r.userId, TrendCategories[k])]],
           !.pc = "lastWeek"])
     /\ UNCHANGED <<txns, budgets, nextId, now, tz, bills, alerts, prefs, strictQuery>>

(* generateTrendAlerts: await Transaction.aggregate([...]) for last week *)
generateTrendAlertsLastWeek(p) ==
  LET r == procs[p]
  IN /\ r.op = "generateTrendAlerts" /\ r.pc = "lastWeek"
     /\ StepRun(p, [r EXCEPT
           !.lastWeek = [k \in DOMAIN TrendCategories |->
                           [present |-> \E i \in TxIds :
                                          /\ lastWeekMatch(r.userId, i)
                                          /\ txns[i].category = TrendCategories[k],
                            amount |-> lastWeekAmount(r.userId, TrendCategories[k])]],
           !.pc = "deleteMany"])
     /\ UNCHANGED <<txns, budgets, nextId, now, tz, bills, alerts, prefs, strictQuery>>

(* generateTrendAlerts: await Alert.deleteMany({user: userId, type: "trend"}) *)
generateTrendAlertsDeleteMany(p) ==
  LET r == procs[p]
  IN /\ r.op = "generateTrendAlerts" /\ r.pc = "deleteMany"
     /\ alerts' = deleteTrendAlerts(alerts, r.user)
     /\ StepRun(p, [r EXCEPT !.pc = IF trendsToAlert(r, 1) = {} THEN "done" ELSE "create"])
     /\ UNCHANGED <<txns, budgets, nextId, now, tz, bills, prefs, strictQuery>>

(* generateTrendAlerts: await Alert.create({...}) for the next group that calls for *)
(* an alert.  Called with req.user.id both group results are empty (see StringId),  *)
(* so through generateAllAlerts this step is never taken.                           *)
generateTrendAlertsCreate(p) ==
  LET r == procs[p]
      k == CHOOSE k \in trendsToAlert(r, r.idx) : \A j \in trendsToAlert(r, r.idx) : k <= j
      thisWeek == r.thisWeek[k].amount
      lastWeek == r.lastWeek[k].amount
  IN /\ r.op = "generateTrendAlerts" /\ r.pc = "create"
     /\ alerts' = Append(alerts,
                         Alert(r.user, "trend", trendSeverity(thisWeek, lastWeek),
                               "increased", Round((thisWeek - lastWeek) * 100, lastWeek),
                               0, TrendCategories[k]))
     /\ StepRun(p, [r EXCEPT !.idx = k + 1,
                             !.pc = IF trendsToAlert(r, k + 1) = {} THEN "done"
                                    ELSE "create"])
     /\ UNCHANGED <<txns, budgets, nextId, now, tz, bills, prefs, strictQuery>>

(* GET /api/alerts (getAlerts): the caller's alerts of the type asked for; the answer *)
(* is recorded by its length                                                         *)
alertsFound(u, type) == SelectSeq(alerts, LAMBDA a : a.user = u /\ a.type = type)

getAlerts(u, type) ==
  /\ last' = Response("getAlerts", u, 0, type, Len(alertsFound(u, type)))
  /\ prev' = Store
  /\ UNCHANGED <<txns, budgets, nextId, now, tz, bills, alerts, prefs, strictQuery, procs>>

(* one account, server on UTC, either query setting: a budget of 20, expenses whose *)
(* sums fall on both sides of every usage threshold, and regenerations             *)
AlertBudgets == {20}
AlertAmounts == {1, 9, 10, 14, 17, 19, 20}

AddBodiesUsage ==
  {body \in [amount : {<<a>> : a \in AlertAmounts}, type : {<<"expense">>},
             category : {<<"Food">>}, date : {<<0>>}] : TRUE}

InitAlerts == Init /\ tz = 0

NextBudgetAlerts ==
  \/ \E mb \in AlertBudgets : setBudget("u1", <<mb>>)
  \/ \E body \in AddBodiesUsage : addTransaction("u1", body)
  \/ DoDelete(Solo)
  \/ generateBudgetAlerts("u1")
  \/ Tick

SpecBudgetAlerts == InitAlerts /\ [][NextBudgetAlerts]_vars

(* two accounts, server on UTC, either query setting: budgets, expenses and bills are *)
(* entered while no generateAllAlerts call is in flight; single generators, calls of  *)
(* generateAllAlerts one store operation at a time, and reads of the alerts           *)
Quiet == procs = <<>>

AddBodiesGenerate ==
  {[amount |-> <<a>>, type |-> <<"expense">>, category |-> <<"Food">>, date |-> <<0>>] :
     a \in {20}}

BillBodiesGenerate ==
  {[billName |-> <<"Rent">>, amount |-> <<1>>, dueDate |-> <<d * TicksPerDay>>,
    status |-> <<>>] : d \in {0, 8}}

AlertTypes == {"budget", "bill", "trend"}

StepGenerate(p) ==
  \/ generateBudgetAlertsFindOne(p)
  \/ generateBudgetAlertsDeleteMany(p)
  \/ generateBudgetAlertsCreate(p)
  \/ generateBillAlertsFind(p)
  \/ generateBillAlertsDeleteMany(p)
  \/ generateBillAlertsCreate(p)
  \/ generateTrendAlertsThisWeek(p)
  \/ generateTrendAlertsLastWeek(p)
  \/ generateTrendAlertsDeleteMany(p)
  \/ generateTrendAlertsCreate(p)

NextGenerate ==
  \/ Quiet /\ \E mb \in AlertBudgets : setBudget("u1", <<mb>>)
  \/ Quiet /\ \E body \in AddBodiesGenerate : addTransaction("u1", body)
  \/ Quiet /\ \E u \in Users, body \in BillBodiesGenerate : createBill(u, body)
  \/ Quiet /\ generateBudgetAlerts("u1")
  \/ Quiet /\ \E u \in Users : generateBillAlerts(u)
  \/ Quiet /\ generateTrendAlerts(StringId("u1"))
  \/ generateAllAlerts(StringId("u1"))
  \/ \E p \in DOMAIN procs : StepGenerate(p)
  \/ \E type \in AlertTypes : getAlerts("u1", type)

SpecGenerate == InitAlerts /\ [][NextGenerate]_vars

(* one account, server on UTC, strictQuery off: bills due today are entered while no  *)
(* call is in flight, and up to MaxRacers calls of generateAllAlerts run at once, one *)
(* store operation at a time                                                          *)
MaxRacers == 2

BillBodiesOverlap ==
  {[billName |-> <<"Rent">>, amount |-> <<1>>, dueDate |-> <<0>>, status |-> <<>>]}

NextOverlap ==
  \/ Quiet /\ \E body \in BillBodiesOverlap : createBill("u1", body)
  \/ generateAllAlertsOf(StringId("u1"), MaxRacers)
  \/ \E p \in DOMAIN procs : StepGenerate(p)

SpecOverlap == InitUTC /\ [][NextOverlap]_vars

(* ---------- read flags (alertController) ---------- *)
(* An alert document is named by its place in the collection.                        *)

(* PATCH /api/alerts/:id/read: Alert.findOne({_id, user}); alert.isRead = true; save *)
markAlertAsRead(u, id) ==
  /\ IF id \notin DOMAIN alerts \/ alerts[id].user # u
     THEN last' = Response("markAlertAsRead", u, id, "404", 0) /\ UNCHANGED alerts
     ELSE /\ alerts' = [alerts EXCEPT ![id].isRead = TRUE]
          /\ last' = Response("markAlertAsRead", u, id, "200", 0)
  /\ prev' = Store
  /\ UNCHANGED <<txns, budgets, nextId, now, tz, bills, prefs, strictQuery, procs>>

(* faulty variant: the filter has no user *)
unreadOfAnyone(A, u) == {i \in DOMAIN A : ~A[i].isRead}

(* the documents matching {user: req.user.id, isRead: false} *)
unreadOf(A, u) == {i \in DOMAIN A : A[i].user = u /\ ~A[i].isRead}

(* PATCH /api/alerts/read-all: Alert.updateMany({user, isRead: false}, {isRead: true}) *)
markAllAlertsAsRead(u) ==
  /\ alerts' = [i \in DOMAIN alerts |->
                  IF i \in unreadOf(alerts, u) THEN [alerts[i] EXCEPT !.isRead = TRUE]
                  ELSE alerts[i]]
  /\ last' = Response("markAllAlertsAsRead", u, 0, "200", Cardinality(unreadOf(alerts, u)))
  /\ prev' = Store
  /\ UNCHANGED <<txns, budgets, nextId, now, tz, bills, prefs, strictQuery, procs>>

(* two accounts, server on UTC, strictQuery off, one request at a time: bills due    *)
(* today, expenses that double from last week to this week, the bill and trend       *)
(* generators, and the two read requests                                             *)
AddBodiesRead ==
  {[amount |-> <<a[1]>>, type |-> <<"expense">>, category |-> <<"Food">>,
    date |-> <<a[2]>>] : a \in {<<5, twoWeeksAgo>>, <<10, now>>}}

NextRead ==
  \/ \E u \in Users, body \in BillBodiesOverlap : createBill(u, body)
  \/ \E body \in AddBodiesRead : addTransaction("u1", body)
  \/ \E u \in Users : generateBillAlerts(u)
  \/ generateTrendAlerts(StringId("u1"))
  \/ \E u \in Users, id \in 1..MaxAlerts : markAlertAsRead(u, id)
  \/ \E u \in Users : markAllAlertsAsRead(u)

SpecRead == InitUTC /\ [][NextRead]_vars

(* ---------- AI preferences and the AI endpoints ---------- *)
(* Each endpoint answers 200 with a message and a data object; the answer is recorded *)
(* by its message (status) and by whether data carries a derived result (arg 1) or is *)
(* the empty object (arg 0).                                                          *)
ToggleNames == {"enableAI", "forecast", "personality", "suggestions", "challenges"}

(* PUT /api/settings/ai (updateAIPreferences): the toggles of the body are merged into *)
(* user.settings.aiPreferences and saved; the body sets one toggle                     *)
updateAIPreferences(u, name, value) ==
  /\ prefs' = [prefs EXCEPT ![u] = [prefs[u] EXCEPT ![name] = value]]
  /\ last' = Response("updateAIPreferences", u, 0, "AI preferences updated", 1)
  /\ prev' = Store
  /\ UNCHANGED <<txns, budgets, nextId, now, tz, bills, alerts, strictQuery, procs>>

(* thirtyDaysAgo.setDate(getDate() - 30), ninetyDaysAgo.setDate(getDate() - 90) *)
ThirtyDays == 30
NinetyDays == 90
thirtyDaysAgo == now - ThirtyDays * TicksPerDay
ninetyDaysAgo == now - NinetyDays * TicksPerDay

(* Transaction.find({user, type: "expense", date: {$gte: since}}) *)
expensesSince(u, since) ==
  {i \in TxIds : txns[i].user = u /\ txns[i].type = "expense" /\ txns[i].date >= since}

(* the answer of an AI endpoint; nothing is written *)
Answer(op, u, message, data) ==
  /\ last' = Response(op, u, 0, message, data)
  /\ prev' = Store
  /\ UNCHANGED <<txns, budgets, nextId, now, tz, others>>

(* the minimum number of expenses getPersonality classifies *)
MinPersonalityTxns == 5

(* GET /api/ai/forecast *)
getForecast(u) ==
  IF ~prefs[u].forecast THEN Answer("getForecast", u, "disabled", 0)
  ELSE IF ~Exists(BudgetOf(budgets, u, getCurrentMonth))
    THEN Answer("getForecast", u, "set your monthly budget", 0)
  ELSE IF expensesSince(u, thirtyDaysAgo) = {}
    THEN Answer("getForecast", u, "not enough data", 0)
  ELSE Answer("getForecast", u, "generated", 1)

(* GET /api/ai/personality *)
getPersonality(u) ==
  IF ~prefs[u].personality THEN Answer("getPersonality", u, "disabled", 0)
  ELSE IF Cardinality(expensesSince(u, ninetyDaysAgo)) < MinPersonalityTxns
    THEN Answer("getPersonality", u, "not enough data", 0)
  ELSE Answer("getPersonality", u, "generated", 1)

(* GET /api/ai/suggestions *)
getSuggestions(u) ==
  IF prefs[u].suggestions = FALSE THEN Answer("getSuggestions", u, "disabled", 0)
  ELSE IF expensesSince(u, thirtyDaysAgo) = {}
    THEN Answer("getSuggestions", u, "not enough data", 0)
  ELSE Answer("getSuggestions", u, "generated", 1)

(* GET /api/ai/mood-insights: no preference is read *)
getMoodInsights(u) ==
  IF {i \in expensesSince(u, ninetyDaysAgo) : txns[i].mood # "none"} = {}
  THEN Answer("getMoodInsights", u, "no mood data", 0)
  ELSE Answer("getMoodInsights", u, "generated", 1)

(* GET /api/ai/challenges: no preference is read; challenges are returned for every *)
(* ledger, an empty one included                                                    *)
getChallenges(u) == Answer("getChallenges", u, "generated", 1)

(* one account, server on UTC: toggles are switched, a budget is set, expenses with *)
(* and without a mood are entered inside and outside the 30 and 90 day windows and  *)
(* deleted, and the five endpoints are called                                       *)
AIDates == {0, 0 - ThirtyDays * TicksPerDay - 1, 0 - NinetyDays * TicksPerDay - 1}

AddBodiesAI ==
  [amount : {<<1>>}, type : {<<"expense">>, <<"income">>}, category : {<<"Food">>},
   date : {<<d>> : d \in AIDates}, mood : {<<>>, <<"happy">>}]

NextAI ==
  \/ \E name \in ToggleNames, value \in BOOLEAN : updateAIPreferences("u1", name, value)
  \/ setBudget("u1", <<1>>)
  \/ \E body \in AddBodiesAI : addTransaction("u1", body)
  \/ DoDelete(Solo)
  \/ getForecast("u1")
  \/ getPersonality("u1")
  \/ getSuggestions("u1")
  \/ getMoodInsights("u1")
  \/ getChallenges("u1")

SpecAI == InitUTC /\ [][NextAI]_vars

(* ---------- personality classification ---------- *)
(* The transactions an endpoint has read are kept as a list of groups in the order  *)
(* of the find: times transactions of one category and one amount each.             *)
HighValueAmount == 2000
WeeksInNinetyDays == 12

RECURSIVE SumOver(_, _, _)
SumOver(transactions, f(_), i) ==
  IF i > Len(transactions) THEN 0 ELSE f(transactions[i]) + SumOver(transactions, f, i + 1)

(* transactions.length *)
lengthOf(transactions) == SumOver(transactions, LAMBDA g : g.times, 1)

(* transactions.reduce((sum, txn) => sum + txn.amount, 0) *)
totalSpending(transactions) == SumOver(transactions, LAMBDA g : g.amount * g.times, 1)

(* [...new Set(transactions.map((t) => t.category))] *)
uniqueCategories(transactions) == {transactions[i].category : i \in DOMAIN transactions}

(* transactions.filter((t) => t.amount > 2000).length *)
highValueCount(transactions) ==
  SumOver(transactions, LAMBDA g : IF g.amount > HighValueAmount THEN g.times ELSE 0, 1)

(* categoryTotals[cat] *)
categoryTotals(transactions, cat) ==
  SumOver(transactions, LAMBDA g : IF g.category = cat THEN g.amount * g.times ELSE 0, 1)

(* Math.round((categoryTotals[cat] / totalSpending) * 100) *)
percentage(transactions, cat) ==
  Round(categoryTotals(transactions, cat) * 100, totalSpending(transactions))

(* categories[0] after the (stable) sort by percentage, descending: the category of *)
(* the largest percentage that was met first in the list                           *)
topCategory(transactions) ==
  LET first(cat) == CHOOSE i \in DOMAIN transactions :
                      /\ transactions[i].category = cat
                      /\ \A j \in DOMAIN transactions :
                           transactions[j].category = cat => i <= j
  IN CHOOSE cat \in uniqueCategories(transactions) :
       \A other \in uniqueCategories(transactions) :
         \/ percentage(transactions, cat) > percentage(transactions, other)
         \/ /\ percentage(transactions, cat) = percentage(transactions, other)
            /\ first(cat) <= first(other)

(* budgetUsagePercent < 50, with budgetUsagePercent = spentSoFar / monthlyBudget * 100 *)
(* and 100 when there is no current-month budget                                      *)
budgetUsageBelow50(currentBudget) ==
  /\ Exists(currentBudget)
  /\ currentBudget.spentSoFar * 100 < 50 * currentBudget.monthlyBudget

(* the rule-based logic of getPersonality / determinePersonality; txnsPerWeek is *)
(* transactions.length / 12; "null" when fewer than 5 transactions were found     *)
determinePersonality(transactions, currentBudget) ==
  LET n == lengthOf(transactions)
  IN IF n < MinPersonalityTxns THEN "null"
     ELSE IF Cardinality(uniqueCategories(transactions)) > 5
             /\ n > 10 * WeeksInNinetyDays
       THEN "Impulsive Spender"
     ELSE IF \E cat \in uniqueCategories(transactions) :
               cat = "Food" /\ percentage(transactions, cat) > 30
       THEN "Foodie Spender"
     ELSE IF n < 5 * WeeksInNinetyDays /\ highValueCount(transactions) > 2
       THEN "Occasional Big Spender"
     ELSE IF percentage(transactions, topCategory(transactions)) > 60
       THEN "Category Loyalist"
     ELSE IF budgetUsageBelow50(currentBudget) /\ n < 5 * WeeksInNinetyDays
       THEN "Saver"
     ELSE "Balanced Spender"

(* a getPersonality request that has read its transactions and the current budget *)
PersonalityRequest(u, transactions, currentBudget) ==
  [op |-> "getPersonality", user |-> u, pc |-> "classify",
   transactions |-> transactions, currentBudget |-> currentBudget]

(* getPersonality, from the metrics to the response *)
getPersonalityClassify(p) ==
  LET r == procs[p]
      type == determinePersonality(r.transactions, r.currentBudget)
  IN /\ r.op = "getPersonality" /\ r.pc = "classify"
     /\ procs' = [procs EXCEPT ![p] = [r EXCEPT !.pc = "done"]]
     /\ last' = IF type = "null"
                THEN Response("getPersonality", r.user, 0, "not enough data", "none")
                ELSE Response("getPersonality", r.user, 0, "generated", type)
     /\ prev' = Store
     /\ UNCHANGED <<txns, budgets, nextId, now, tz, bills, alerts, prefs, strictQuery>>

(* what was read: for each of six categories nothing, one small purchase, two or   *)
(* three large ones, or twenty-five small ones; no budget, or one used to 40% or   *)
(* to 60%                                                                        *)
PersonalityCategories == <<"Shopping", "Food", "Transport", "Bills", "Health", "Other">>

GroupChoices ==
  {[amount |-> 0, times |-> 0], [amount |-> 100, times |-> 1],
   [amount |-> 3000, times |-> 2], [amount |-> 3000, times |-> 3],
   [amount |-> 100, times |-> 25]}

RECURSIVE groupsFrom(_, _)
groupsFrom(choice, i) ==
  IF i > Len(PersonalityCategories) THEN <<>>
  ELSE (IF choice[i].times = 0 THEN <<>>
        ELSE <<[category |-> PersonalityCategories[i], amount |-> choice[i].amount,
                times |-> choice[i].times]>>) \o groupsFrom(choice, i + 1)

TransactionsRead ==
  {groupsFrom(choice, 1) : choice \in [DOMAIN PersonalityCategories -> GroupChoices]}

BudgetsRead ==
  {NoBudget, [monthlyBudget |-> 100, spentSoFar |-> 40],
   [monthlyBudget |-> 100, spentSoFar |-> 60]}

InitPersonality ==
  /\ txns = [i \in TxIds |-> NoTx]
  /\ budgets = [k \in Users \X Months |-> NoBudget]
  /\ nextId = 1
  /\ now = 0
  /\ tz = 0
  /\ last = Response("init", "none", 0, "ok", 0)
  /\ bills = <<>>
  /\ alerts = <<>>
  /\ prefs = [u \in Users |-> aiPreferences]
  /\ strictQuery = FALSE
  /\ procs \in {<<PersonalityRequest("u1", transactions, currentBudget)>> :
                   transactions \in TransactionsRead, currentBudget \in BudgetsRead}
  /\ prev = Store

NextPersonality == \E p \in DOMAIN procs : getPersonalityClassify(p)

SpecPersonality == InitPersonality /\ [][NextPersonality]_vars

(* ---------- the forecast, at its three computation sites ---------- *)
(* Amounts and budgets are integers; a percentage p / m * 100 is kept as the pair    *)
(* of p and m and compared with a threshold t by p * 100 > t * m.                    *)
DaysAveraged == 30
MediumAbove == 60
MediumAboveRisk == 75

(* faulty variant: the average is cut, not rounded *)
dailyAverageCut(totalExpenses) == totalExpenses \div DaysAveraged

(* Math.round(totalExpenses / 30) *)
dailyAverage(totalExpenses) == Round(totalExpenses, DaysAveraged)

(* faulty variant: there is no medium tier *)
riskLevelTwoTiers(predicted, monthlyBudget, mediumAbove) ==
  IF predicted * 100 > 100 * monthlyBudget THEN "high" ELSE "low"

(* percentage > 100: high; percentage > mediumAbove: medium; else low, where *)
(* percentage = predicted / monthlyBudget * 100                              *)
riskLevel(predicted, monthlyBudget, mediumAbove) ==
  IF predicted * 100 > 100 * monthlyBudget THEN "high"
  ELSE IF predicted * 100 > mediumAbove * monthlyBudget THEN "medium"
  ELSE "low"

(* a request that has read the current-month budget, the expenses of the last 30 *)
(* days and the days remaining in the month                                      *)
ForecastRequest(op, u, currentBudget, expenses, remainingDays) ==
  [op |-> op, user |-> u, pc |-> "compute", currentBudget |-> currentBudget,
   transactions |-> expenses, remainingDays |-> remainingDays]

(* getForecast, after the gate and the reads *)
getForecastCompute(p) ==
  LET r == procs[p]
      budget == r.currentBudget
      average == dailyAverage(totalSpending(r.transactions))
      predictedExpenses == budget.spentSoFar + average * r.remainingDays
      forecast == [predictedExpenses |-> predictedExpenses,
                   monthlyBudget |-> budget.monthlyBudget,
                   spentSoFar |-> budget.spentSoFar,
                   remainingDays |-> r.remainingDays,
                   dailyAverage |-> average,
                   difference |-> predictedExpenses - budget.monthlyBudget,
                   riskLevel |-> riskLevel(predictedExpenses, budget.monthlyBudget,
                                           MediumAbove)]
  IN /\ r.op = "getForecast" /\ r.pc = "compute"
     /\ procs' = [procs EXCEPT ![p] = [r EXCEPT !.pc = "done"]]
     /\ last' = IF ~Exists(budget)
                THEN Response("getForecast", r.user, 0, "set your monthly budget", "none")
                ELSE IF lengthOf(r.transactions) = 0
                THEN Response("getForecast", r.user, 0, "not enough data", "none")
                ELSE Response("getForecast", r.user, 0, "generated", forecast)
     /\ prev' = Store
     /\ UNCHANGED <<txns, budgets, nextId, now, tz, bills, alerts, prefs, strictQuery>>

(* the risk both getForecastRisk and the forecast insight of getAIInsights compute: *)
(* dailyAvg = total / 30 is not rounded, so predicted is kept in thirtieths         *)
forecastRisk(budget, expenses, remainingDays) ==
  riskLevel(budget.spentSoFar * DaysAveraged + totalSpending(expenses) * remainingDays,
            budget.monthlyBudget * DaysAveraged, MediumAboveRisk)

(* getForecastRisk(userId, budget), after its read *)
getForecastRisk(p) ==
  LET r == procs[p]
  IN /\ r.op = "getForecastRisk" /\ r.pc = "compute"
     /\ procs' = [procs EXCEPT ![p] = [r EXCEPT !.pc = "done"]]
     /\ last' = Response("getForecastRisk", r.user, 0, "returned",
                         IF ~Exists(r.currentBudget) \/ lengthOf(r.transactions) = 0
                         THEN "low"
                         ELSE forecastRisk(r.currentBudget, r.transactions,
                                           r.remainingDays))
     /\ prev' = Store
     /\ UNCHANGED <<txns, budgets, nextId, now, tz, bills, alerts, prefs, strictQuery>>

(* getAIInsights, 1. FORECAST INSIGHT, after its reads: the severity of the insight *)
(* pushed, "none" when none is                                                     *)
getAIInsightsForecast(p) ==
  LET r == procs[p]
  IN /\ r.op = "getAIInsights" /\ r.pc = "compute"
     /\ procs' = [procs EXCEPT ![p] = [r EXCEPT !.pc = "done"]]
     /\ last' = Response("getAIInsights", r.user, 0, "returned",
                         IF Exists(r.currentBudget) /\ r.currentBudget.monthlyBudget > 0
                            /\ lengthOf(r.transactions) > 0
                         THEN forecastRisk(r.currentBudget, r.transactions,
                                           r.remainingDays)
                         ELSE "none")
     /\ prev' = Store
     /\ UNCHANGED <<txns, budgets, nextId, now, tz, bills, alerts, prefs, strictQuery>>

(* what was read: no budget or one of 10000 with 0, 5000, 6000, 7400 or 9000 spent; *)
(* no expense, or expenses summing to 14, 44, 45, 3000 (in one or two expenses),    *)
(* 4500 or 12000; 0, 10 or 30 days remaining                                        *)
ForecastBudgetsRead ==
  {NoBudget} \cup {[monthlyBudget |-> 10000, spentSoFar |-> s] :
                     s \in {0, 5000, 6000, 7400, 9000}}

ForecastExpensesRead ==
  {<<>>} \cup {<<[category |-> "Food", amount |-> a, times |-> 1]>> :
                 a \in {14, 44, 45, 3000, 4500, 12000}}
         \cup {<<[category |-> "Food", amount |-> 1000, times |-> 1],
                  [category |-> "Bills", amount |-> 2000, times |-> 1]>>}

RemainingDaysRead == {0, 10, 30}

InitForecast ==
  /\ txns = [i \in TxIds |-> NoTx]
  /\ budgets = [k \in Users \X Months |-> NoBudget]
  /\ nextId = 1
  /\ now = 0
  /\ tz = 0
  /\ last = Response("init", "none", 0, "ok", 0)
  /\ bills = <<>>
  /\ alerts = <<>>
  /\ prefs = [u \in Users |-> aiPreferences]
  /\ strictQuery = FALSE
  /\ procs \in {<<ForecastRequest(op, "u1", budget, expenses, remainingDays)>> :
                   op \in {"getForecast", "getForecastRisk", "getAIInsights"},
                   budget \in ForecastBudgetsRead, expenses \in ForecastExpensesRead,
                   remainingDays \in RemainingDaysRead}
  /\ prev = Store

NextForecast ==
  \E p \in DOMAIN procs :
    \/ getForecastCompute(p)
    \/ getForecastRisk(p)
    \/ getAIInsightsForecast(p)

SpecForecast == InitForecast /\ [][NextForecast]_vars

(* ---------- the consolidated alert list (part_003 getAlerts) ---------- *)
(* The list is computed from the budget, the bills, the forecast toggle and the      *)
(* risk; nothing is written.  An item is kept by its type and its origin.  The day   *)
(* of the month is not told by the tick clock: the days remaining are an input.      *)
Item(type, origin, id) == [type |-> type, origin |-> origin, id |-> id]

(* 1. Budget Alerts: usage = spentSoFar / monthlyBudget * 100 against 100 and 80 *)
budgetItems(budget) ==
  IF ~Exists(budget) THEN <<Item("info", "no budget", 0)>>
  ELSE IF budget.spentSoFar * 100 > 100 * budget.monthlyBudget
    THEN <<Item("danger", "budget", 0)>>
  ELSE IF budget.spentSoFar * 100 > 80 * budget.monthlyBudget
    THEN <<Item("warning", "budget", 0)>>
  ELSE <<>>

(* 2. Bill Alerts: the pending bills of the user, from the i-th on: overdue ones and *)
(* ones due within 3 days                                                           *)
RECURSIVE billItems(_, _)
billItems(u, i) ==
  IF i > Len(bills) THEN <<>>
  ELSE (IF bills[i].user = u /\ bills[i].status = "pending"
        THEN IF diffDays(bills[i].dueDate, now) < 0 THEN <<Item("danger", "bill", i)>>
             ELSE IF diffDays(bills[i].dueDate, now) <= 3
               THEN <<Item("warning", "bill", i)>>
             ELSE <<>>
        ELSE <<>>) \o billItems(u, i + 1)

(* the expenses getForecastRisk finds, as a list of groups *)
RECURSIVE expensesRead(_, _)
expensesRead(u, i) ==
  IF i > MaxTx THEN <<>>
  ELSE (IF i \in expensesSince(u, thirtyDaysAgo)
        THEN <<[category |-> txns[i].category, amount |-> txns[i].amount, times |-> 1]>>
        ELSE <<>>) \o expensesRead(u, i + 1)

(* 3. AI Forecast Alerts *)
forecastItems(u, budget, remainingDays) ==
  IF prefs[u].forecast /\ Exists(budget)
     /\ expensesRead(u, 1) # <<>>
     /\ forecastRisk(budget, expensesRead(u, 1), remainingDays) = "high"
  THEN <<Item("danger", "forecast", 0)>>
  ELSE <<>>

(* faulty variant: the list is returned in the order it was built *)
sortByPriorityNot(items) == items

(* alerts.sort((a, b) => priority[b.type] - priority[a.type]): a stable sort, so the *)
(* items of one type keep their order                                               *)
sortByPriority(items) ==
  SelectSeq(items, LAMBDA a : a.type = "danger")
    \o SelectSeq(items, LAMBDA a : a.type = "warning")
    \o SelectSeq(items, LAMBDA a : a.type = "info")

getAlertsConsolidated(u, remainingDays) ==
  LET budget == BudgetOf(budgets, u, getCurrentMonth)
      items == budgetItems(budget) \o billItems(u, 1)
                 \o forecastItems(u, budget, remainingDays)
  IN /\ last' = Response("getAlertsConsolidated", u, remainingDays, "200",
                         sortByPriority(items))
     /\ prev' = Store
     /\ UNCHANGED <<txns, budgets, nextId, now, tz, others>>

(* one account, server on UTC: a budget of 20, expenses of 10 and 20, bills overdue, *)
(* due today, in 3 and in 4 days; the forecast toggle is switched, bill alerts are   *)
(* generated and stored, and the list is asked for with 0 or 10 days remaining       *)
AddBodiesConsolidated ==
  {[amount |-> <<a>>, type |-> <<"expense">>, category |-> <<"Food">>, date |-> <<0>>] :
     a \in {10, 20}}

BillBodiesConsolidated ==
  {[billName |-> <<"Rent">>, amount |-> <<1>>, dueDate |-> <<d * TicksPerDay>>,
    status |-> <<>>] : d \in {-1, 0, 3, 4}}

NextConsolidated ==
  \/ \E mb \in AlertBudgets : setBudget("u1", <<mb>>)
  \/ \E body \in AddBodiesConsolidated : addTransaction("u1", body)
  \/ \E body \in BillBodiesConsolidated : createBill("u1", body)
  \/ \E id \in BillIds : markBillAsPaid("u1", id)
  \/ \E value \in BOOLEAN : updateAIPreferences("u1", "forecast", value)
  \/ generateBillAlerts("u1")
  \/ \E remainingDays \in {0, 10} : getAlertsConsolidated("u1", remainingDays)

SpecConsolidated == InitUTC /\ [][NextConsolidated]_vars

(* ---------- challenges ---------- *)
(* challengePool: the number of templates of each category that has a pool *)
PoolCategories == {"Food", "Shopping", "Transport", "Entertainment", "General"}
poolLength(cat) == IF cat = "Food" THEN 3 ELSE 2

(* Object.entries(categoryTotals).sort((a, b) => b[1] - a[1]): the position of a *)
(* category counts those with a larger total and those with an equal total that  *)
(* were met earlier                                                              *)
firstIndex(transactions, cat) ==
  CHOOSE i \in DOMAIN transactions :
    /\ transactions[i].category = cat
    /\ \A j \in DOMAIN transactions : transactions[j].category = cat => i <= j

rankOf(transactions, cat) ==
  1 + Cardinality({other \in uniqueCategories(transactions) :
        \/ categoryTotals(transactions, other) > categoryTotals(transactions, cat)
        \/ /\ categoryTotals(transactions, other) = categoryTotals(transactions, cat)
           /\ firstIndex(transactions, other) < firstIndex(transactions, cat)})

(* sortedExps.slice(0, 3).map((i) => i[0]), as the category at each of the places *)
topCategories(transactions) ==
  [k \in 1..(IF Cardinality(uniqueCategories(transactions)) < 3
             THEN Cardinality(uniqueCategories(transactions)) ELSE 3) |->
     CHOOSE cat \in uniqueCategories(transactions) : rankOf(transactions, cat) = k]

(* Math.round((monthlySpend * 0.15) / 4), 500 when that is below 100 *)
expectedSave(monthlySpend) ==
  IF Round(monthlySpend * 15, 100 * 4) < 100 THEN 500
  ELSE Round(monthlySpend * 15, 100 * 4)

(* A. the category challenges of the top categories from the k-th on; pick[k] is *)
(* Math.floor(Math.random() * catChallenges.length) of the k-th pass             *)
RECURSIVE categoryChallenges(_, _, _)
categoryChallenges(transactions, pick, k) ==
  IF k > Len(topCategories(transactions)) THEN <<>>
  ELSE LET cat == topCategories(transactions)[k]
       IN (IF cat \in PoolCategories
           THEN <<[category |-> cat, template |-> pick[k] % poolLength(cat),
                   expectedSave |-> expectedSave(categoryTotals(transactions, cat)),
                   difficulty |-> "Medium"]>>
           ELSE <<>>) \o categoryChallenges(transactions, pick, k + 1)

(* B. one General challenge when fewer than 2 were made, then slice(0, 3) *)
challengesOf(transactions, pick) ==
  LET made == categoryChallenges(transactions, pick, 1)
      filled == IF Len(made) < 2
                THEN Append(made, [category |-> "General",
                                   template |-> pick[4] % poolLength("General"),
                                   expectedSave |-> 500, difficulty |-> "Easy"])
                ELSE made
  IN SubSeq(filled, 1, IF Len(filled) < 3 THEN Len(filled) ELSE 3)

(* getChallenges, after its read of the last 30 days' expenses *)
getChallengesCompute(p, pick) ==
  LET r == procs[p]
  IN /\ r.op = "getChallenges" /\ r.pc = "compute"
     /\ procs' = [procs EXCEPT ![p] = [r EXCEPT !.pc = "done"]]
     /\ last' = Response("getChallenges", r.user, 0, "generated",
                         challengesOf(r.transactions, pick))
     /\ prev' = Store
     /\ UNCHANGED <<txns, budgets, nextId, now, tz, bills, alerts, prefs, strictQuery>>

(* what was read: for each of Food, Shopping, Transport and Health (which has no *)
(* pool) nothing or one expense of 200, 3000 or 8000; the random picks           *)
ChallengeCategories == <<"Health", "Food", "Shopping", "Transport">>
ChallengeAmounts == {0, 200, 3000, 8000}

RECURSIVE expensesFrom(_, _)
expensesFrom(choice, i) ==
  IF i > Len(ChallengeCategories) THEN <<>>
  ELSE (IF choice[i] = 0 THEN <<>>
        ELSE <<[category |-> ChallengeCategories[i], amount |-> choice[i],
                times |-> 1]>>) \o expensesFrom(choice, i + 1)

ChallengeExpensesRead ==
  {expensesFrom(choice, 1) : choice \in [DOMAIN ChallengeCategories -> ChallengeAmounts]}

Picks == [1..4 -> 0..2]

InitChallenges ==
  /\ txns = [i \in TxIds |-> NoTx]
  /\ budgets = [k \in Users \X Months |-> NoBudget]
  /\ nextId = 1
  /\ now = 0
  /\ tz = 0
  /\ last = Response("init", "none", 0, "ok", 0)
  /\ bills = <<>>
  /\ alerts = <<>>
  /\ prefs = [u \in Users |-> aiPreferences]
  /\ strictQuery = FALSE
  /\ procs \in {<<[op |-> "getChallenges", user |-> "u1", pc |-> "compute",
                     transactions |-> expenses]>> : expenses \in ChallengeExpensesRead}
  /\ prev = Store

NextChallenges == \E p \in DOMAIN procs, pick \in Picks : getChallengesCompute(p, pick)

SpecChallenges == InitChallenges /\ [][NextChallenges]_vars

(* ====================================================================== *)
(* Properties.  Each is stated of the state a request leaves behind: last  *)
(* is the request, prev the store it found, txns / budgets the store it    *)
(* left.                                                                   *)
(* ====================================================================== *)
Keys == Users \X Months

(* sum of amount over u's live expense transactions of ledger T dated in (local) month m *)
ExpenseSum(T, u, m) ==
  SumAmounts(T, {i \in TxIds : /\ T[i].user = u
                               /\ T[i].type = "expense"
                               /\ (T[i].date + tz) \div TicksPerMonth = m})

Max0(x) == IF x < 0 THEN 0 ELSE x

LedgerOp == last.op \in {"add", "update", "delete"}
Accepted(op) == last.op = op /\ last.status = "ok"

(* the transaction the last request addressed, before and after it *)
Old == prev.txns[last.id]
New == txns[last.id]
OldKey == <<last.user, MonthOf(Old.date)>>
NewKey == <<last.user, MonthOf(New.date)>>

(* C1 (as claimed): a ledger request that found an aggregate equal to its month's  *)
(* live expense sum leaves it equal to the month's live expense sum, so the        *)
(* equality survives any sequential run of add / update / delete requests.         *)
C1_SpentTracksLedger ==
  \A k \in Keys :
    (/\ LedgerOp
     /\ Exists(prev.budgets[k])
     /\ prev.budgets[k].spentSoFar = ExpenseSum(prev.txns, k[1], k[2]))
    => budgets[k].spentSoFar = Max0(ExpenseSum(txns, k[1], k[2]))

(* C2: spentSoFar of every aggregate is never negative. *)
C2_SpentNeverNegative == \A k \in Keys : budgets[k].spentSoFar >= 0

(* C2 witness: an expense was deleted from a month whose aggregate held less than *)
(* the expense's amount; the aggregate was floored at zero.                       *)
C2_DeleteFlooredWitness ==
  /\ Accepted("delete")
  /\ Old.type = "expense"
  /\ Exists(prev.budgets[OldKey])
  /\ prev.budgets[OldKey].spentSoFar < Old.amount
  /\ budgets[OldKey].spentSoFar = 0

(* an accepted update of an expense that stays an expense of the same date, in a month *)
(* that has an aggregate                                                                *)
AmountOnlyEdit ==
  /\ Accepted("update")
  /\ Old.type = "expense" /\ New.type = "expense"
  /\ Old.date = New.date
  /\ Exists(prev.budgets[OldKey])

(* C3 (as claimed): an amount-only edit of an expense changes the month's spentSoFar *)
(* by exactly newAmount - oldAmount, whatever spentSoFar was.                        *)
C3_AmountEditExactDelta ==
  AmountOnlyEdit =>
    budgets[OldKey].spentSoFar = prev.budgets[OldKey].spentSoFar + New.amount - Old.amount

(* C3 (amended): the change is exactly newAmount - oldAmount when spentSoFar was at *)
(* least oldAmount; when it was less, the revert floors at zero and spentSoFar      *)
(* becomes newAmount.  No other aggregate changes.                                  *)
C3_AmountEditFlooredDelta ==
  AmountOnlyEdit =>
    /\ prev.budgets[OldKey].spentSoFar >= Old.amount =>
         budgets[OldKey].spentSoFar
           = prev.budgets[OldKey].spentSoFar + New.amount - Old.amount
    /\ prev.budgets[OldKey].spentSoFar < Old.amount =>
         budgets[OldKey].spentSoFar = New.amount
    /\ budgets[OldKey].monthlyBudget = prev.budgets[OldKey].monthlyBudget
    /\ \A j \in Keys \ {OldKey} : budgets[j] = prev.budgets[j]

(* C3 witness: an expense's amount alone was edited in a month whose aggregate *)
(* covered the old amount.                                                     *)
C3_AmountEditWitness ==
  /\ AmountOnlyEdit
  /\ Old.amount # New.amount
  /\ prev.budgets[OldKey].spentSoFar >= Old.amount

(* C4: an accepted update expense -> income takes the old amount out of the old      *)
(* month's aggregate (floored at zero) and adds nothing anywhere; income -> expense  *)
(* takes nothing out and adds the new amount to the new month's aggregate.           *)
C4_TypeEdit ==
  Accepted("update") =>
    /\ (Old.type = "expense" /\ New.type = "income") =>
         \A k \in Keys :
           budgets[k] =
             IF k = OldKey /\ Exists(prev.budgets[k])
             THEN [prev.budgets[k] EXCEPT !.spentSoFar = Max0(@ - Old.amount)]
             ELSE prev.budgets[k]
    /\ (Old.type = "income" /\ New.type = "expense") =>
         \A k \in Keys :
           budgets[k] =
             IF k = NewKey /\ Exists(prev.budgets[k])
             THEN [prev.budgets[k] EXCEPT !.spentSoFar = @ + New.amount]
             ELSE prev.budgets[k]

(* C4 witness: an expense counted in its month's aggregate was turned into income; *)
(* the aggregate dropped by its amount.                                            *)
C4_ExpenseToIncomeWitness ==
  /\ Accepted("update")
  /\ Old.type = "expense" /\ New.type = "income"
  /\ Exists(prev.budgets[OldKey])
  /\ prev.budgets[OldKey].spentSoFar >= Old.amount
  /\ budgets[OldKey].spentSoFar = prev.budgets[OldKey].spentSoFar - Old.amount

(* C5: adding an income, deleting an income and editing an income that stays an *)
(* income leave every aggregate as it was.                                      *)
C5_IncomeLeavesAggregates ==
  (\/ Accepted("add") /\ New.type = "income"
   \/ Accepted("delete") /\ Old.type = "income"
   \/ Accepted("update") /\ Old.type = "income" /\ New.type = "income")
  => budgets = prev.budgets

(* C5 witness: an income dated in a month whose aggregate counts some expense was *)
(* added, deleted, or edited in amount.                                           *)
C5_IncomeWitness ==
  \/ /\ Accepted("add") /\ New.type = "income"
     /\ prev.budgets[NewKey].spentSoFar > 0
  \/ /\ Accepted("delete") /\ Old.type = "income"
     /\ prev.budgets[OldKey].spentSoFar > 0
  \/ /\ Accepted("update") /\ Old.type = "income" /\ New.type = "income"
     /\ Old.amount # New.amount
     /\ prev.budgets[OldKey].spentSoFar > 0

(* C6: a ledger request never creates an aggregate (only setBudget does); a complete *)
(* add is accepted whether or not an aggregate exists; an expense added to, deleted  *)
(* from or edited within months without an aggregate is stored, removed or changed   *)
(* while every aggregate stays as it was.                                            *)
C6_NoAggregateNoEffect ==
  /\ (\E k \in Keys : Exists(budgets[k]) /\ ~Exists(prev.budgets[k]))
       => Accepted("setBudget")
  /\ (last.op = "add" /\ last.arg = 0) => last.status = "ok"
  /\ (/\ Accepted("add") /\ New.type = "expense"
      /\ ~Exists(prev.budgets[NewKey]))
       => (New # NoTx /\ Old = NoTx /\ budgets = prev.budgets)
  /\ (/\ Accepted("delete") /\ Old.type = "expense"
      /\ ~Exists(prev.budgets[OldKey]))
       => (New = NoTx /\ budgets = prev.budgets)
  /\ (/\ Accepted("update")
      /\ Old.type = "expense" /\ ~Exists(prev.budgets[OldKey])
      /\ New.type = "expense" /\ ~Exists(prev.budgets[NewKey]))
       => budgets = prev.budgets

(* C6 witness: an expense was added to a month without an aggregate while another *)
(* month of the same user has one.                                                *)
C6_NoAggregateWitness ==
  /\ Accepted("add") /\ New.type = "expense"
  /\ ~Exists(budgets[NewKey])
  /\ \E m \in Months : Exists(budgets[<<last.user, m>>])

(* C7 (as claimed): right after an accepted setBudget the current month's aggregate *)
(* holds the requested limit and the sum of the user's live expenses dated in the   *)
(* current month.                                                                   *)
C7_SetBudgetResyncs ==
  Accepted("setBudget") =>
    LET k == <<last.user, getCurrentMonth>>
    IN /\ Exists(budgets[k])
       /\ budgets[k].monthlyBudget = last.arg
       /\ budgets[k].spentSoFar = ExpenseSum(txns, last.user, getCurrentMonth)

(* C8 (as claimed): an update whose new field values fail validation changes neither *)
(* the transaction nor any aggregate.                                                *)
C8_InvalidUpdateNoEffect ==
  (last.op = "update" /\ last.status = "ValidationError")
    => (txns = prev.txns /\ budgets = prev.budgets)

(* C9: an add whose body lacks a required field, or carries a non-positive amount or *)
(* a type outside {income, expense}, is rejected, stores no transaction and changes  *)
(* no aggregate; every stored transaction is well-formed.                            *)
C9_InvalidAddRejected ==
  /\ (last.op = "add" /\ last.arg > 0) => last.status \in {"400", "ValidationError"}
  /\ (last.op = "add" /\ last.status \in {"400", "ValidationError"})
       => (txns = prev.txns /\ budgets = prev.budgets)
  /\ \A i \in TxIds :
       txns[i] # NoTx => (txns[i].type \in {"income", "expense"} /\ txns[i].amount > 0)

(* C9 witness: an add with an absent or invalid field was refused while the ledger *)
(* and an aggregate exist.                                                         *)
C9_InvalidAddWitness ==
  /\ last.op = "add" /\ last.arg > 0 /\ last.status \in {"400", "ValidationError"}
  /\ \E i \in TxIds : txns[i] # NoTx
  /\ \E k \in Keys : Exists(budgets[k])

(* C10: an update or delete aimed at another user's transaction, or at an id that is *)
(* not stored, ends in an error and changes neither the ledger nor any aggregate;    *)
(* no request changes an aggregate of a user other than its caller.                  *)
C10_ForeignRequestsRejected ==
  /\ (/\ last.op \in {"update", "delete"}
      /\ (Old = NoTx \/ Old.user # last.user))
       => /\ last.status \in {"401", "404"}
          /\ txns = prev.txns
          /\ budgets = prev.budgets
  /\ \A k \in Keys : k[1] # last.user => budgets[k] = prev.budgets[k]

(* C10 witness: a user was refused on another user's expense that is counted in *)
(* that user's aggregate.                                                       *)
C10_ForeignRequestWitness ==
  /\ last.op \in {"update", "delete"} /\ last.status = "401"
  /\ Old # NoTx /\ Old.user # last.user
  /\ Old.type = "expense"
  /\ budgets[<<Old.user, MonthOf(Old.date)>>].spentSoFar > 0
(* the ledger mutation the last request asked for is in the store; for an update: *)
(* the save that failed is the one that follows transaction.save() (arg 2)        *)
LedgerMutationCommitted ==
  \/ last.op = "add" /\ Old = NoTx /\ New # NoTx
  \/ last.op = "update" /\ New # NoTx /\ last.arg = 2
  \/ last.op = "delete" /\ Old # NoTx /\ New = NoTx

FirstRead(r) == IF r.op = "add" THEN r.newBudget ELSE r.oldBudget
FirstMonth(r) == IF r.op = "add" THEN MonthOf(r.new.date) ELSE MonthOf(r.old.date)

(* C12: the aggregate read-modify-write is unprotected.  A handler's save stores the   *)
(* value computed from the spentSoFar that handler read, whatever the store holds by   *)
(* then: a write made between its read and its save is overwritten.                    *)
C12_SaveWritesFromOwnRead ==
  (LedgerOp /\ last.arg \in DOMAIN procs) =>
    LET r == procs[last.arg]
    IN /\ (last.status = "ok" /\ Exists(r.newBudget)) =>
            budgets[<<r.user, MonthOf(r.new.date)>>].spentSoFar
              = r.newBudget.spentSoFar + r.new.amount
       /\ last.status = "saveOld" =>
            budgets[<<r.user, MonthOf(r.old.date)>>].spentSoFar
              = Max0(r.oldBudget.spentSoFar - r.old.amount)

(* C12 witness: two requests of one user on different expenses of one month, the first *)
(* arriving when the aggregate equalled the month's expense sum, both read the same    *)
(* spentSoFar, both have completed, and spentSoFar differs from the month's live       *)
(* expense sum.                                                                        *)
C12_LostUpdateWitness ==
  /\ Len(procs) = 2
  /\ procs[1].pc = "done" /\ procs[2].pc = "done"
  /\ procs[1].user = procs[2].user
  /\ procs[1].id # procs[2].id
  /\ FirstMonth(procs[1]) = FirstMonth(procs[2])
  /\ procs[1].synced
  /\ Exists(FirstRead(procs[1]))
  /\ FirstRead(procs[1]) = FirstRead(procs[2])
  /\ budgets[<<procs[1].user, FirstMonth(procs[1])>>].spentSoFar
       # ExpenseSum(txns, procs[1].user, FirstMonth(procs[1]))
(* the budget alerts of user u created in (local) month m *)
BudgetAlertsOf(u, m) ==
  {i \in DOMAIN alerts : /\ alerts[i].user = u
                         /\ alerts[i].type = "budget"
                         /\ MonthOf(alerts[i].createdAt) = m}

(* the last request was generateBudgetAlerts for a user with a current-month aggregate *)
BudgetRun ==
  /\ last.op = "generateBudgetAlerts"
  /\ Exists(budgets[<<last.user, getCurrentMonth>>])

UsageAtLeast(pct) ==
  LET b == budgets[<<last.user, getCurrentMonth>>]
  IN b.spentSoFar * 100 >= pct * b.monthlyBudget

(* C13 (as claimed): a user never has more than one budget alert of a month, and right *)
(* after generateBudgetAlerts ran for a user whose current-month usage is at least 50% *)
(* the user has exactly one budget alert of that month, however often it ran before.   *)
C13_OneBudgetAlertPerMonth ==
  /\ \A u \in Users, m \in Months : Cardinality(BudgetAlertsOf(u, m)) <= 1
  /\ (BudgetRun /\ UsageAtLeast(50))
       => Cardinality(BudgetAlertsOf(last.user, getCurrentMonth)) = 1

(* the severity the usage of the current-month aggregate calls for *)
UsageSeverity ==
  IF UsageAtLeast(100) THEN "high"
  ELSE IF UsageAtLeast(90) THEN "high"
  ELSE IF UsageAtLeast(75) THEN "medium"
  ELSE IF UsageAtLeast(50) THEN "low"
  ELSE "none"

(* C17 (as claimed): right after generateBudgetAlerts ran, the user's budget alerts of *)
(* the current month are: none when usage < 50; otherwise an alert of severity high    *)
(* (exceeded) for usage >= 100, high for [90, 100), medium for [75, 90), low for       *)
(* [50, 75), and no alert of another severity.                                         *)
C17_UsageBands ==
  BudgetRun =>
    LET S == BudgetAlertsOf(last.user, getCurrentMonth)
    IN IF UsageSeverity = "none" THEN S = {}
       ELSE /\ S # {}
            /\ \A i \in S :
                 /\ alerts[i].severity = UsageSeverity
                 /\ alerts[i].message = (IF UsageAtLeast(100) THEN "exceeded" ELSE "used")
(* the bill alerts of user u that refer to bill id *)
BillAlertsOf(A, u, id) ==
  {i \in DOMAIN A : A[i].user = u /\ A[i].type = "bill" /\ A[i].billId = id}

BillRun == last.op = "generateBillAlerts"

(* days left of a stored bill: ceil of due date minus now, in days *)
DaysLeft(id) == -((now - bills[id].dueDate) \div TicksPerDay)

(* bill id is a live, non-paid bill of user u due within 7 days, or overdue *)
Qualifies(u, id) ==
  /\ id \in DOMAIN bills
  /\ bills[id].user = u
  /\ bills[id].status # "paid"
  /\ DaysLeft(id) <= 7

(* C14: right after generateBillAlerts ran for a user, each of the user's non-paid *)
(* bills with daysLeft <= 7 has exactly one bill alert, and every bill alert of    *)
(* the user refers to such a bill: none to a paid bill, a deleted bill or a bill   *)
(* due more than 7 days out, whatever bill alerts existed before the run.          *)
C14_BillAlertsMatchBills ==
  BillRun =>
    /\ \A id \in DOMAIN bills :
         Qualifies(last.user, id) => Cardinality(BillAlertsOf(alerts, last.user, id)) = 1
    /\ \A i \in DOMAIN alerts :
         (alerts[i].user = last.user /\ alerts[i].type = "bill")
           => Qualifies(last.user, alerts[i].billId)

(* C14 witness: the run found an alert of a bill that had since been paid or deleted, *)
(* and left one alert, for a bill that qualifies.                                     *)
C14_StaleAlertReplacedWitness ==
  /\ BillRun
  /\ \E i \in DOMAIN prev.alerts :
       /\ prev.alerts[i].type = "bill"
       /\ bills[prev.alerts[i].billId].status \in {"paid", "none"}
  /\ \E id \in DOMAIN bills : Qualifies(last.user, id)
  /\ Len(alerts) = 1

(* C18: right after generateBillAlerts ran, a non-paid bill of the user with daysLeft  *)
(* d has: for d < 0 a high alert 'overdue'; for d = 0 a high alert 'due today'; for    *)
(* d = 1 a medium alert 'due tomorrow'; for d in 2..3 a medium alert 'due in d days';  *)
(* for d in 4..7 a low alert 'due in d days'; for d > 7 no alert.                      *)
C18_DaysLeftBands ==
  BillRun =>
    \A id \in DOMAIN bills :
      (bills[id].user = last.user /\ bills[id].status # "paid") =>
        LET d == DaysLeft(id)
            S == BillAlertsOf(alerts, last.user, id)
            Is(severity, message) ==
              /\ S # {}
              /\ \A i \in S : /\ alerts[i].severity = severity
                               /\ alerts[i].message = message
                               /\ alerts[i].n = d
        IN /\ d < 0 => Is("high", "overdue")
           /\ d = 0 => Is("high", "due today")
           /\ d = 1 => Is("medium", "due tomorrow")
           /\ d \in 2..3 => Is("medium", "due in N days")
           /\ d \in 4..7 => Is("low", "due in N days")
           /\ d > 7 => S = {}

(* C18 witness: after a run, a bill due in exactly 3 days has a medium alert 'due in *)
(* 3 days' and a bill due 8 days out has none.                                       *)
C18_ThreeAndEightDaysWitness ==
  /\ BillRun
  /\ \E id \in DOMAIN bills :
       /\ bills[id].status = "pending"
       /\ bills[id].dueDate - now = 3 * TicksPerDay
       /\ \E i \in BillAlertsOf(alerts, last.user, id) :
            alerts[i].severity = "medium" /\ alerts[i].message = "due in N days"
            /\ alerts[i].n = 3
  /\ \E id \in DOMAIN bills :
       /\ bills[id].status = "pending"
       /\ bills[id].dueDate - now = 8 * TicksPerDay
       /\ BillAlertsOf(alerts, last.user, id) = {}
(* the trend alerts of user u for category c *)
TrendAlertsOf(u, c) ==
  {i \in DOMAIN alerts : /\ alerts[i].user = u
                         /\ alerts[i].type = "trend"
                         /\ alerts[i].category = c}

(* u's expense total of category c over the dates from lo to hi *)
CategoryTotal(u, c, lo, hi) ==
  SumAmounts(txns, {i \in TxIds : /\ txns[i].user = u
                                  /\ txns[i].type = "expense"
                                  /\ txns[i].category = c
                                  /\ txns[i].date >= lo /\ txns[i].date <= hi})

(* C19 (as claimed): right after generateTrendAlerts ran for a user, a category has a  *)
(* trend alert exactly when its expense total over [now-14d, now-7d) is nonzero and    *)
(* its total over [now-7d, now] is at least 20% higher; the alert is high when the     *)
(* increase is at least 50% and medium otherwise; a category without prior-week spend  *)
(* has no alert.                                                                       *)
C19_TrendBands ==
  last.op = "generateTrendAlerts" =>
    \A j \in DOMAIN TrendCategories :
      LET c == TrendCategories[j]
          lastWeek == CategoryTotal(last.user, c, twoWeeksAgo, oneWeekAgo - 1)
          thisWeek == CategoryTotal(last.user, c, oneWeekAgo, now)
          S == TrendAlertsOf(last.user, c)
      IN /\ S # {} <=> (lastWeek # 0 /\ (thisWeek - lastWeek) * 100 >= 20 * lastWeek)
         /\ \A i \in S :
              alerts[i].severity = (IF (thisWeek - lastWeek) * 100 >= 50 * lastWeek
                                    THEN "high" ELSE "medium")

(* the alerts of collection A outside the partition of user u and the given type *)
OutsidePartition(A, u, type) == SelectSeq(A, LAMBDA a : ~(a.user = u /\ a.type = type))

TypeOf(op) ==
  CASE op = "generateBudgetAlerts" -> "budget"
    [] op = "generateBillAlerts" -> "bill"
    [] op = "generateTrendAlerts" -> "trend"

(* A and B hold the same alerts, each as many times *)
SameAlerts(A, B) ==
  \A a \in {A[i] : i \in DOMAIN A} \cup {B[i] : i \in DOMAIN B} :
    Cardinality({i \in DOMAIN A : A[i] = a}) = Cardinality({i \in DOMAIN B : B[i] = a})

(* the collection after the named generator has run alone from A for user u *)
AfterGenerator(op, A, u) ==
  CASE op = "generateBudgetAlerts" -> budgetAlertsAfter(A, u)
    [] op = "generateBillAlerts" -> billAlertsAfter(A, u)
    [] op = "generateTrendAlerts" -> trendAlertsAfter(A, StringId(u))

GeneratorOrders ==
  {o \in [1..3 -> {"generateBudgetAlerts", "generateBillAlerts", "generateTrendAlerts"}] :
     \A i, j \in 1..3 : o[i] = o[j] => i = j}

OneAfterAnother(o, A, u) ==
  AfterGenerator(o[3], AfterGenerator(o[2], AfterGenerator(o[1], A, u), u), u)

AllRunAlone ==
  /\ last.op = "generateAllAlerts" /\ last.status = "ok"
  /\ last.arg.alone

(* C15: every store operation of generateBudgetAlerts, generateBillAlerts and           *)
(* generateTrendAlerts leaves the alerts of the other types and of other users as they  *)
(* were; and when a generateAllAlerts call that ran its three generators concurrently,  *)
(* with no other call in flight, answers, the collection holds the same alerts as the   *)
(* three generators run one after another from the call's starting collection, in       *)
(* every one of the six orders.                                                         *)
C15_OwnPartitionOnly ==
  /\ last.op \in {"generateBudgetAlerts", "generateBillAlerts", "generateTrendAlerts"} =>
       OutsidePartition(alerts, last.user, TypeOf(last.op))
         = OutsidePartition(prev.alerts, last.user, TypeOf(last.op))
  /\ AllRunAlone =>
       \A o \in GeneratorOrders :
         SameAlerts(alerts, OneAfterAnother(o, last.arg.start, last.user))

(* C15 witness: a generateAllAlerts call has answered that started from a collection    *)
(* holding a bill alert of its user and a bill alert of another user, and that created  *)
(* a budget alert and a bill alert of its own; the other user's alert is still there.   *)
C15_ConcurrentRunWitness ==
  /\ AllRunAlone
  /\ \E i \in DOMAIN last.arg.start :
       last.arg.start[i].user = last.user /\ last.arg.start[i].type = "bill"
  /\ \E i \in DOMAIN last.arg.start :
       /\ last.arg.start[i].user # last.user
       /\ \E j \in DOMAIN alerts : alerts[j] = last.arg.start[i]
  /\ \E i \in DOMAIN alerts : alerts[i].user = last.user /\ alerts[i].type = "budget"
  /\ \E i \in DOMAIN alerts : alerts[i].user = last.user /\ alerts[i].type = "bill"

(* the bill generators of user u that have deleted the old bill alerts and not yet *)
(* created the first new one, in a call no other call has overlapped              *)
BetweenDeleteAndCreate(u) ==
  {p \in DOMAIN procs : /\ procs[p].op = "generateBillAlerts"
                        /\ procs[p].user = u
                        /\ procs[p].pc = "create" /\ procs[p].idx = 1
                        /\ procs[p].alone}

BillRead == last.op = "getAlerts" /\ last.status = "bill"

(* C16: a getAlerts read of the bill alerts that is answered while the user's         *)
(* generateBillAlerts is between its deleteMany and its first create returns no bill  *)
(* alert at all, whatever the user had before the run and will have after it.         *)
C16_ReadSeesNoBillAlerts ==
  (BillRead /\ BetweenDeleteAndCreate(last.user) # {}) => last.arg = 0

(* C16 witness: such a read has returned zero bill alerts although the user had a bill *)
(* alert when the run began and the run has a fetched bill to create an alert for.     *)
C16_TransientEmptyWitness ==
  /\ BillRead /\ last.arg = 0
  /\ \E p \in BetweenDeleteAndCreate(last.user) :
       /\ \E i \in DOMAIN procs[p].start :
            procs[p].start[i].user = last.user /\ procs[p].start[i].type = "bill"
       /\ billsToAlert(procs[p], 1) # {}

(* the preference an endpoint is named after; the schema has no toggle for the mood *)
(* insights, for which the general enableAI switch is taken                         *)
ToggleOf(op) ==
  CASE op = "getForecast" -> "forecast"
    [] op = "getPersonality" -> "personality"
    [] op = "getSuggestions" -> "suggestions"
    [] op = "getChallenges" -> "challenges"
    [] op = "getMoodInsights" -> "enableAI"

AIEndpoints ==
  {"getForecast", "getPersonality", "getSuggestions", "getMoodInsights", "getChallenges"}

(* C20 (as claimed): whenever one of getForecast, getPersonality, getSuggestions,     *)
(* getMoodInsights and getChallenges answers a user whose toggle for it is false, the *)
(* answer is the 'disabled' marker and carries no derived result, whatever the ledger *)
(* and the budget are.                                                                *)
C20_TogglesGate ==
  (last.op \in AIEndpoints /\ ~prefs[last.user][ToggleOf(last.op)]) =>
    (last.status = "disabled" /\ last.arg = 0)

(* ---- personality: the decision list as the specification words it ---- *)
(* the request that was answered last, with what it had read *)
Classified == last.op = "getPersonality" /\ procs # <<>> /\ procs[1].op = "getPersonality"
Read == procs[1].transactions

SpendOf(cat) == categoryTotals(Read, cat)
TotalSpend == totalSpending(Read)

(* share of total spend above pct percent *)
ShareAbove(cat, pct) == SpendOf(cat) * 100 > pct * TotalSpend

(* no category has a larger spend than cat *)
IsTopSpending(cat) == \A i \in DOMAIN Read : SpendOf(Read[i].category) <= SpendOf(cat)

ImpulsiveRule ==
  /\ Cardinality({Read[i].category : i \in DOMAIN Read}) > 5
  /\ lengthOf(Read) > 10 * WeeksInNinetyDays
FoodieRule == SpendOf("Food") > 0 /\ IsTopSpending("Food") /\ ShareAbove("Food", 30)
BigSpenderRule ==
  /\ lengthOf(Read) < 5 * WeeksInNinetyDays
  /\ highValueCount(Read) > 2
LoyalistRule == \E i \in DOMAIN Read : ShareAbove(Read[i].category, 60)
SaverRule ==
  /\ budgetUsageBelow50(procs[1].currentBudget)
  /\ lengthOf(Read) < 5 * WeeksInNinetyDays

FirstMatch ==
  IF ImpulsiveRule THEN "Impulsive Spender"
  ELSE IF FoodieRule THEN "Foodie Spender"
  ELSE IF BigSpenderRule THEN "Occasional Big Spender"
  ELSE IF LoyalistRule THEN "Category Loyalist"
  ELSE IF SaverRule THEN "Saver"
  ELSE "Balanced Spender"

(* C21 (as claimed): a getPersonality answer over at least 5 expense transactions is  *)
(* the first rule, in the order Impulsive, Foodie, Occasional Big Spender, Category   *)
(* Loyalist, Saver, Balanced, whose predicate holds; over fewer than 5 it is the      *)
(* 'not enough data' answer without a type.                                           *)
C21_FirstMatchWins ==
  Classified =>
    IF lengthOf(Read) >= 5
    THEN last.status = "generated" /\ last.arg = FirstMatch
    ELSE last.status = "not enough data" /\ last.arg = "none"

(* C22 (as claimed): when the Impulsive rule does not match, the answer over at least *)
(* 5 transactions is Foodie Spender exactly when Food is the top-spending category    *)
(* and its share of the spend is above 30%.                                           *)
C22_FoodieOnlyWhenFoodIsTop ==
  (Classified /\ lengthOf(Read) >= 5 /\ ~ImpulsiveRule) =>
    (last.arg = "Foodie Spender" <=> FoodieRule)

(* ---- forecast ---- *)
ForecastRead == procs[1]
Forecasted == last.op = "getForecast" /\ procs # <<>> /\ procs[1].op = "getForecast"
WindowSum == totalSpending(ForecastRead.transactions)

(* d = round(x / 30), rounding halves up: x / 30 - 1/2 < d <= x / 30 + 1/2 *)
IsRounded(d, x) == 2 * x - 30 < 60 * d /\ 60 * d <= 2 * x + 30

(* C23: a getForecast answer computed from a current-month budget and a non-empty   *)
(* window has dailyAverage = round(window sum / 30), predicted = spentSoFar +        *)
(* dailyAverage * remainingDays and riskLevel high when predicted / monthlyBudget *  *)
(* 100 > 100, medium when it is in (60, 100], low otherwise; without a budget or     *)
(* with an empty window the answer is an 'insufficient data' one with no forecast.   *)
C23_ForecastComputation ==
  Forecasted =>
    IF ~Exists(ForecastRead.currentBudget) \/ ForecastRead.transactions = <<>>
    THEN last.status \in {"set your monthly budget", "not enough data"}
         /\ last.arg = "none"
    ELSE LET f == last.arg
             m == ForecastRead.currentBudget.monthlyBudget
         IN /\ last.status = "generated"
            /\ IsRounded(f.dailyAverage, WindowSum)
            /\ f.predictedExpenses = ForecastRead.currentBudget.spentSoFar
                                       + f.dailyAverage * ForecastRead.remainingDays
            /\ f.predictedExpenses * 100 > 100 * m => f.riskLevel = "high"
            /\ (f.predictedExpenses * 100 > 60 * m
                 /\ f.predictedExpenses * 100 <= 100 * m) => f.riskLevel = "medium"
            /\ f.predictedExpenses * 100 <= 60 * m => f.riskLevel = "low"

(* C23 witness: a forecast was answered whose window sum is not a multiple of 30 and *)
(* rounds up (45 / 30 gives 2), and one of the no-data answers is covered by the     *)
(* formula's other branch.                                                           *)
C23_RoundedAverageWitness ==
  /\ Forecasted /\ last.status = "generated"
  /\ WindowSum = 45 /\ last.arg.dailyAverage = 2
  /\ ForecastRead.remainingDays = 10
  /\ last.arg.predictedExpenses = ForecastRead.currentBudget.spentSoFar + 20

(* the worked example: budget 10000, 6000 spent, a window of 3000 (100 a day), *)
(* 10 days remaining                                                           *)
WorkedExample ==
  /\ procs # <<>>
  /\ procs[1].pc = "done"
  /\ procs[1].currentBudget = [monthlyBudget |-> 10000, spentSoFar |-> 6000]
  /\ WindowSum = 3000
  /\ procs[1].remainingDays = 10

(* C24 (as claimed): on the worked example getForecast, which applies the 60%      *)
(* threshold, yields predicted = 7000, percentage = 70 and the tier low, and        *)
(* getForecastRisk and the forecast insight, which apply the 75% threshold, yield   *)
(* medium.                                                                          *)
C24_WorkedExampleTiers ==
  WorkedExample =>
    /\ last.op = "getForecast" =>
         /\ last.arg.predictedExpenses = 7000
         /\ last.arg.predictedExpenses * 100 = 70 * last.arg.monthlyBudget
         /\ last.arg.riskLevel = "low"
    /\ last.op \in {"getForecastRisk", "getAIInsights"} => last.arg = "medium"

(* C24 (amended): on the worked example getForecast yields predicted = 7000,        *)
(* percentage = 70 and, 70 being above its 60% threshold, the tier medium;          *)
(* getForecastRisk and the forecast insight, 70 being below their 75% threshold,    *)
(* yield low.                                                                       *)
C24_WorkedExampleTiersAmended ==
  WorkedExample =>
    /\ last.op = "getForecast" =>
         /\ last.arg.predictedExpenses = 7000
         /\ last.arg.predictedExpenses * 100 = 70 * last.arg.monthlyBudget
         /\ last.arg.dailyAverage = 100
         /\ last.arg.riskLevel = "medium"
    /\ last.op \in {"getForecastRisk", "getAIInsights"} => last.arg = "low"

(* C24 witness: getForecast has answered the worked example with the tier medium. *)
C24_WorkedExampleWitness ==
  /\ WorkedExample
  /\ last.op = "getForecast" /\ last.status = "generated"
  /\ last.arg.predictedExpenses = 7000 /\ last.arg.riskLevel = "medium"

(* ---- consolidated alert list ---- *)
Listed == last.op = "getAlertsConsolidated"

Priority(type) == CASE type = "danger" -> 3 [] type = "warning" -> 2 [] type = "info" -> 1

(* thirty times the spend predicted by the unrounded average, from the ledger *)
PredictedThirtyfold(u, remainingDays) ==
  BudgetOf(budgets, u, getCurrentMonth).spentSoFar * 30
    + SumAmounts(txns, {i \in TxIds : /\ txns[i].user = u
                                      /\ txns[i].type = "expense"
                                      /\ txns[i].date >= now - 30 * TicksPerDay})
        * remainingDays

(* C25: in every consolidated list no item precedes one of a higher priority        *)
(* (danger > warning > info); the info 'no budget' item is in the list exactly when *)
(* the user has no current-month aggregate; a forecast danger item is in the list   *)
(* only when the forecast toggle is on, a budget exists and the predicted spend is  *)
(* above the budget; and the persisted alerts are those the request found.          *)
C25_ConsolidatedList ==
  Listed =>
    LET items == last.arg
        budget == BudgetOf(budgets, last.user, getCurrentMonth)
    IN /\ \A i, j \in DOMAIN items :
            i < j => Priority(items[i].type) >= Priority(items[j].type)
       /\ (\E i \in DOMAIN items : items[i].type = "info") <=> ~Exists(budget)
       /\ \A i \in DOMAIN items : items[i].type = "info" => items[i].origin = "no budget"
       /\ (\E i \in DOMAIN items : items[i].origin = "forecast") =>
            /\ prefs[last.user].forecast
            /\ Exists(budget)
            /\ PredictedThirtyfold(last.user, last.id) * 100
                  > 100 * 30 * budget.monthlyBudget
       /\ \A i \in DOMAIN items :
            items[i].origin = "forecast" => items[i].type = "danger"
       /\ alerts = prev.alerts

(* C25 witness: a list was returned in which the forecast danger item, built last, *)
(* stands before a warning item, while persisted bill alerts exist.                *)
C25_ForecastBeforeWarningWitness ==
  /\ Listed
  /\ alerts # <<>>
  /\ \E i, j \in DOMAIN last.arg :
       /\ i < j
       /\ last.arg[i].origin = "forecast"
       /\ last.arg[j].type = "warning"

(* ---- challenges ---- *)
Challenged == last.op = "getChallenges" /\ procs # <<>> /\ procs[1].op = "getChallenges"

(* round(spend * 0.15 / 4) = round(3 * spend / 80), halves up *)
SaveOf(spend) ==
  CHOOSE d \in 0..spend : 6 * spend - 80 < 160 * d /\ 160 * d <= 6 * spend + 80

(* C26 (as claimed): every getChallenges answer holds at least 2 and at most 3       *)
(* challenges, whatever the window (an empty one and one whose top categories have   *)
(* no pool included) and whatever the random picks; every category-driven challenge  *)
(* has expectedSave = round(categorySpend * 0.15 / 4), or 500 when that is below 100.*)
C26_TwoToThreeChallenges ==
  Challenged =>
    /\ Len(last.arg) >= 2 /\ Len(last.arg) <= 3
    /\ \A i \in DOMAIN last.arg :
         last.arg[i].difficulty = "Medium" =>
           LET save == SaveOf(categoryTotals(procs[1].transactions, last.arg[i].category))
           IN last.arg[i].expectedSave = (IF save < 100 THEN 500 ELSE save)

(* ---- an edit that moves an expense to another month ---- *)
MonthMove ==
  /\ Accepted("update")
  /\ Old.type = "expense" /\ New.type = "expense"
  /\ OldKey # NewKey
  /\ Exists(prev.budgets[OldKey]) /\ Exists(prev.budgets[NewKey])

(* C27: an accepted update that moves an expense from month M1 to another month M2,  *)
(* both with an aggregate, lowers M1's spentSoFar by the pre-edit amount (to zero    *)
(* when it was smaller), raises M2's spentSoFar by the post-edit amount, and leaves  *)
(* the budgets of both and every other aggregate as they were.                       *)
C27_MonthMove ==
  MonthMove =>
    /\ budgets[OldKey].spentSoFar
         = (IF prev.budgets[OldKey].spentSoFar >= Old.amount
            THEN prev.budgets[OldKey].spentSoFar - Old.amount ELSE 0)
    /\ budgets[NewKey].spentSoFar = prev.budgets[NewKey].spentSoFar + New.amount
    /\ budgets[OldKey].monthlyBudget = prev.budgets[OldKey].monthlyBudget
    /\ budgets[NewKey].monthlyBudget = prev.budgets[NewKey].monthlyBudget
    /\ \A j \in Keys \ {OldKey, NewKey} : budgets[j] = prev.budgets[j]

(* C27 witness: an expense was moved to another month with a changed amount, both *)
(* months having an aggregate and the old one covering the old amount.            *)
C27_MonthMoveWitness ==
  /\ MonthMove
  /\ Old.amount # New.amount
  /\ prev.budgets[OldKey].spentSoFar >= Old.amount
  /\ prev.budgets[OldKey].spentSoFar > 0

(* ---- calls of generateAllAlerts that overlap ---- *)
Qualifying(u) ==
  {j \in billsFound(u) : billSeverity(diffDays(bills[j].dueDate, now)) # "none"}

AllAnswered == Quiet /\ last.op = "generateAllAlerts" /\ last.status = "ok"

(* C28: once every call of generateAllAlerts for a user has answered, whether the *)
(* calls overlapped or not, the user has exactly one bill alert for every bill    *)
(* that calls for one.                                                            *)
C28_OneAlertPerBill ==
  AllAnswered =>
    \A j \in Qualifying(last.user) : Cardinality(BillAlertsOf(alerts, last.user, j)) = 1

(* ---- read flags and regeneration ---- *)
Regenerated == last.op \in {"generateBillAlerts", "generateTrendAlerts"}
Marked == last.op \in {"markAlertAsRead", "markAllAlertsAsRead"}

(* C29: when generateBillAlerts or generateTrendAlerts has completed, every stored *)
(* alert of that type of the user is unread, whatever the read flags were before;  *)
(* markAlertAsRead and markAllAlertsAsRead change nothing but isRead, and only on  *)
(* alerts of the caller.                                                           *)
C29_RegenerationResetsRead ==
  /\ Regenerated =>
       \A i \in DOMAIN alerts :
         (alerts[i].user = last.user /\ alerts[i].type = TypeOf(last.op))
            => ~alerts[i].isRead
  /\ Marked =>
       /\ Len(alerts) = Len(prev.alerts)
       /\ txns = prev.txns /\ budgets = prev.budgets /\ bills = prev.bills
       /\ \A i \in DOMAIN alerts :
            /\ [alerts[i] EXCEPT !.isRead = prev.alerts[i].isRead] = prev.alerts[i]
            /\ alerts[i].user # last.user => alerts[i] = prev.alerts[i]

(* C29 witness: a bill alert that had been marked read was replaced by an unread *)
(* alert for the same bill, while another user's read alert stayed as it was.    *)
C29_ReplacedReadAlertWitness ==
  /\ last.op = "generateBillAlerts"
  /\ \E j \in DOMAIN bills :
       /\ \E i \in BillAlertsOf(prev.alerts, last.user, j) : prev.alerts[i].isRead
       /\ BillAlertsOf(alerts, last.user, j) # {}
  /\ \E i \in DOMAIN alerts : alerts[i].user # last.user /\ alerts[i].isRead

(* ---- setBudget overlapping a ledger request ---- *)
BothAnswered ==
  /\ Len(procs) = 2
  /\ procs[1].pc = "done" /\ procs[2].pc = "done"
  /\ \E p, q \in DOMAIN procs :
       /\ procs[p].op = "setBudget"
       /\ procs[q].op \in {"add", "delete", "update"}
       /\ procs[q].user = procs[p].user
       /\ FirstMonth(procs[q]) = procs[p].id

(* C30: when a setBudget and an add, delete or update of an expense of the current *)
(* month, of one user, have both answered, overlapping or not, the month's         *)
(* spentSoFar equals the sum of the amounts of the user's stored expenses of the   *)
(* month.                                                                          *)
C30_SetBudgetResyncs ==
  BothAnswered =>
    budgets[<<"u1", getCurrentMonth>>].spentSoFar = ExpenseSum(txns, "u1", getCurrentMonth)
====
